---- MODULE Spec2Model ----
(***************************************************************************)
(* python-powerdns: the RRSet / Zone / Server object model of              *)
(* powerdns/interface.py, as state machines.                               *)
(*                                                                         *)
(* Strings are sequences of one-character strings, so that endswith and    *)
(* concatenation are computed and not assumed.  A Python dict is a         *)
(* function whose domain is its key set.  Python's None is the record      *)
(* None.                                                                   *)
(***************************************************************************)
EXTENDS Integers, Sequences, FiniteSets, TLC

VARIABLES
    rrset,       \* the RRSet object under construction/canonicalization, or None
    call,        \* the last operation called, with its arguments
    pre,         \* the object's state (RRSet, cache) when the last operation was called
    exc,         \* the exception the last operation raised (NoExc if none)
    ret,         \* what the last operation returned
    _zones,      \* PDNSServer._zones: None or the cached list of PDNSZone
    zone_name,   \* PDNSZone.name
    _details,    \* PDNSZone._details: None or the cached detail blob
    requests,    \* the transport calls the last operation issued, in order
    rrsets,      \* the RRSets passed to the last operation, as they are after it
    fetched,     \* the GETs of the zone's details that returned a value since
                 \* the zone was built or create/delete_records last called
                 \* (counted in the zone specification)
    _servers,    \* PDNSEndpoint._servers: None or the cached list of PDNSServer
    listings,    \* the GETs of the zone list that returned a list since the
                 \* server was built or create/delete/restore_zone last called
                 \* (counted in the endpoint specification)
    zone_details, \* the _details of each PDNSZone of the cached zone list
    _api_key,    \* PDNSApiClient._api_key
    request_headers, \* PDNSApiClient.request_headers
    threads      \* the callers running side by side, each with the PDNSZone it
                 \* works on and its place in the method it is executing

vars == <<rrset, call, pre, exc, ret, _zones, zone_name, _details, requests,
          rrsets, fetched, _servers, listings, zone_details, _api_key,
          request_headers, threads>>

\* the state of the PDNSZone object and of what is passed to it
zoneVars == <<zone_name, _details, rrsets, fetched>>

\* the state of the PDNSEndpoint object and of the zone list of its server
endpointVars == <<_servers, listings, zone_details>>

\* the state of the PDNSApiClient object
clientVars == <<_api_key, request_headers>>

-----------------------------------------------------------------------------
(* Values *)

None == [kind |-> "None"]

NoExc == [kind |-> "none"]

PDNSCanonicalError(name) == [kind |-> "PDNSCanonicalError", name |-> name]

ValueError == [kind |-> "ValueError"]

PDNSError == [kind |-> "PDNSError"]

Dot == <<".">>

\* str.endswith
EndsWith(s, suffix) ==
    /\ Len(suffix) <= Len(s)
    /\ SubSeq(s, Len(s) - Len(suffix) + 1, Len(s)) = suffix

\* Python truthiness of None, a str or a dict
Truthy(v) == v # None /\ DOMAIN v # {}

\* a Python list, in a place where None may stand too
List(items) == [list |-> items]

\* Python truthiness of None or a list
TruthyList(v) == v # None /\ Len(v.list) > 0

\* PDNSApiClient.request_headers as __init__ sets it
DefaultHeaders ==
    ("Content-Type" :> "application/json") @@ ("Accept" :> "application/json")

Chars == {".", "a"}

Strs(n) == UNION {[1..k -> Chars] : k \in 0..n}

SeqsUpTo(S, n) == UNION {[1..k -> S] : k \in 0..n}

-----------------------------------------------------------------------------
(* RRSet *)

DefaultTTL == 3600

\* a structured record with these keys is refused
DictRefused(d) ==
    \/ /\ {"content", "disabled"} \subseteq DOMAIN d
       /\ DOMAIN d # {"content", "disabled"}
    \/ "content" \notin DOMAIN d

\* dict input: record["disabled"] = False when the key is missing
DictRecord(d) ==
    IF "disabled" \notin DOMAIN d
    THEN [k \in DOMAIN d \cup {"disabled"} |->
             IF k = "disabled" THEN FALSE ELSE d[k]]
    ELSE d

\* a slip: the disabled flag of a list/tuple input is dropped
SeqRecord_DropsDisabled(record) == [content |-> record.content, disabled |-> FALSE]

\* list/tuple input: disabled = record[1]; record = record[0]
SeqRecord(record) == [content |-> record.content, disabled |-> record.disabled]

\* anything else: a bare content with disabled False
StrRecord(record) == [content |-> record.content, disabled |-> FALSE]

\* the element appended to self['records'] for one input record
NormalizeRecord(record) ==
    CASE record.kind = "dict" -> DictRecord(record.d)
      [] record.kind = "seq"  -> SeqRecord(record)
      [] OTHER                -> StrRecord(record)

\* what self.raw_records[i] reads as: the caller's list, whose dict elements
\* are the very objects appended to self['records']
RawRecord(record, stored) ==
    IF record.kind = "dict" THEN [kind |-> "dict", d |-> stored] ELSE record

\* RRSet.__init__: the new object, or the exception it raises
NewRRSet(name, rtype, records, ttl, changetype, comments) ==
    IF \E i \in 1..Len(records) :
           records[i].kind = "dict" /\ DictRefused(records[i].d)
    THEN [exc |-> ValueError, obj |-> None]
    ELSE [exc |-> NoExc,
          obj |-> [name        |-> name,
                   type        |-> rtype,
                   changetype  |-> changetype,
                   ttl         |-> ttl,
                   records     |-> [i \in 1..Len(records) |->
                                       NormalizeRecord(records[i])],
                   comments    |-> comments,
                   raw_records |-> [i \in 1..Len(records) |->
                                       RawRecord(records[i],
                                                 NormalizeRecord(records[i]))]]]

\* a slip: the zone is appended without the separating dot
CanonicalName_NoSeparator(name, zone) ==
    IF ~EndsWith(name, Dot) THEN name \o zone ELSE name

\* self['name'] += ".%s" % zone, when the name is not canonical
CanonicalName(name, zone) ==
    IF ~EndsWith(name, Dot) THEN name \o Dot \o zone ELSE name

\* a slip: the zone is appended to the content without the endswith test
CanonicalContent_Unchecked(record, zone) ==
    [record EXCEPT !.content = @ \o Dot \o zone]

\* record['content'] += ".%s" % zone, when the content is not canonical
CanonicalContent(record, zone) ==
    IF ~EndsWith(record.content, Dot)
    THEN [record EXCEPT !.content = @ \o Dot \o zone]
    ELSE record

\* a slip: the contents are rewritten whatever the type
CanonicalRecords_AnyType(rtype, records, zone) ==
    [i \in 1..Len(records) |-> CanonicalContent(records[i], zone)]

\* the records of an RRSet after ensure_canonical: rewritten for CNAME only
CanonicalRecords(rtype, records, zone) ==
    IF rtype = "CNAME"
    THEN [i \in 1..Len(records) |-> CanonicalContent(records[i], zone)]
    ELSE records

\* a slip: the RRSet's own name is checked, and reported, before the zone
EnsureCanonicalExc_NameFirst(self, zone) ==
    IF ~EndsWith(self.name, Dot) THEN PDNSCanonicalError(self.name)
    ELSE IF ~EndsWith(zone, Dot) THEN PDNSCanonicalError(zone) ELSE NoExc

\* the exception RRSet.ensure_canonical raises
EnsureCanonicalExc(self, zone) ==
    IF ~EndsWith(zone, Dot) THEN PDNSCanonicalError(zone) ELSE NoExc

\* RRSet.ensure_canonical: the object after the call
EnsureCanonical(self, zone) ==
    IF EnsureCanonicalExc(self, zone) # NoExc
    THEN self
    ELSE LET recs == CanonicalRecords(self.type, self.records, zone)
         IN  [self EXCEPT
                 !.name = CanonicalName(@, zone),
                 !.records = recs,
                 !.raw_records = [i \in 1..Len(@) |->
                                     IF @[i].kind = "dict"
                                     THEN [kind |-> "dict", d |-> recs[i]]
                                     ELSE @[i]]]

-----------------------------------------------------------------------------
(* Inputs of the RRSet specification *)

MaxRecords == 2

RRNames == {<<>>, <<"a">>, <<"a", ".">>}

RRZones == {<<>>, <<"a">>, <<".">>, <<"a", ".">>}

RRContents == {<<"a">>, <<"a", ".">>}

RRTypes == {"A", "CNAME"}

RRKeys == {"content", "disabled", "foo"}

\* the dict with the keys of K, content c, disabled b and foo "b"
Dict(K, c, b) ==
    [k \in K |-> CASE k = "content"  -> c
                  [] k = "disabled" -> b
                  [] OTHER          -> <<"b">>]

\* the dicts over the key set K
DictsOver(K) == {Dict(K, c, b) : c \in RRContents, b \in BOOLEAN}

RecordInputs ==
    {[kind |-> "str", content |-> c] : c \in RRContents}
    \cup {[kind |-> "seq", content |-> c, disabled |-> b] :
             c \in RRContents, b \in BOOLEAN}
    \cup {[kind |-> "dict", d |-> d] : d \in UNION {DictsOver(K) : K \in SUBSET RRKeys}}

-----------------------------------------------------------------------------
(* The RRSet specification: one RRSet is constructed, then canonicalized *)

Start == [op |-> "start"]

InitRR ==
    /\ rrset = None
    /\ call = Start
    /\ pre = None
    /\ exc = NoExc
    /\ ret = None
    /\ _zones = None
    /\ zone_name = <<>>
    /\ _details = None
    /\ requests = <<>>
    /\ rrsets = <<>>
    /\ fetched = 0
    /\ _servers = None
    /\ listings = 0
    /\ zone_details = <<>>
    /\ _api_key = ""
    /\ request_headers = DefaultHeaders
    /\ threads = <<>>

Construct ==
    /\ call = Start
    /\ \E name \in RRNames, rtype \in RRTypes,
          records \in SeqsUpTo(RecordInputs, MaxRecords) :
          LET r == NewRRSet(name, rtype, records, DefaultTTL, "REPLACE", <<>>)
          IN  /\ rrset' = r.obj
              /\ exc' = r.exc
              /\ call' = [op |-> "RRSet", name |-> name, rtype |-> rtype,
                          records |-> records]
    /\ pre' = rrset
    /\ UNCHANGED <<clientVars, threads, ret, _zones, requests, zoneVars, endpointVars>>

Canonicalize ==
    /\ rrset # None
    /\ \E zone \in RRZones :
          /\ rrset' = EnsureCanonical(rrset, zone)
          /\ exc' = EnsureCanonicalExc(rrset, zone)
          /\ call' = [op |-> "ensure_canonical", zone |-> zone]
    /\ pre' = rrset
    /\ UNCHANGED <<clientVars, threads, ret, _zones, requests, zoneVars, endpointVars>>

NextRR == Construct \/ Canonicalize

SpecRR == InitRR /\ [][NextRR]_vars

-----------------------------------------------------------------------------
(* PDNSServer *)

\* PDNSZone.__init__ for the i-th item of a zone listing: the object is
\* identified by its place in the list it was created for
PDNSZone(name, i) == [name |-> name, idx |-> i]

\* an instance of PDNSZone is always true; None is not
TruthyObject(obj) == obj # None

\* the transport's answer to a request: decoded data, or PDNSError raised
Ok(data) == [ok |-> TRUE, data |-> data]

Raised == [ok |-> FALSE]

\* one call of the transport: what was sent and what it answered
Request(method, path, data, answer) ==
    [method |-> method, path |-> path, data |-> data, answer |-> answer]

\* self._get('%s/zones' % self.url), answered resp
GetZones(resp) == Request("GET", <<"zones">>, <<>>, resp)

\* the zones property: the exception it raises
ZonesExc(cache, resp) ==
    IF ~TruthyList(cache) /\ ~resp.ok THEN PDNSError ELSE NoExc

\* the zones property: self._zones after the read
ZonesCache(cache, resp) ==
    IF ~TruthyList(cache) /\ resp.ok
    THEN List([i \in 1..Len(resp.data) |-> PDNSZone(resp.data[i], i)])
    ELSE cache

\* the zones property: the transport calls it issues
ZonesRequests(cache, resp) ==
    IF ~TruthyList(cache) THEN <<GetZones(resp)>> ELSE <<>>

\* a slip: a zone whose name is a plain string suffix is a candidate
IsCandidate_StringSuffix(r_name, zone) == EndsWith(r_name, zone.name)

\* r_name.endswith('.' + zone.name)
IsCandidate(r_name, zone) == EndsWith(r_name, Dot \o zone.name)

\* a slip: a later zone of equal length replaces the best match
Longer_OrEqual(zone, best_match) == Len(zone.name) >= Len(best_match.name)

\* len(zone.name) > len(best_match.name)
Longer(zone, best_match) == Len(zone.name) > Len(best_match.name)

\* one iteration of the loop of suggest_zone: the best match after it
SuggestStep(r_name, zone, best_match) ==
    IF IsCandidate(r_name, zone)
    THEN LET first == IF ~TruthyObject(best_match) THEN zone ELSE best_match
         IN  IF TruthyObject(first) /\ Longer(zone, first) THEN zone ELSE first
    ELSE best_match

RECURSIVE SuggestLoop(_, _, _, _)
\* the loop of suggest_zone over zones[i..], from the best match so far
SuggestLoop(r_name, zones, i, best_match) ==
    IF i > Len(zones)
    THEN best_match
    ELSE SuggestLoop(r_name, zones, i + 1,
                     SuggestStep(r_name, zones[i], best_match))

\* a slip: the zone list is read before the record name is checked
suggest_zone_ReadsFirst(cache, r_name, resp) ==
    IF ZonesExc(cache, resp) # NoExc
    THEN [exc |-> PDNSError, ret |-> None, zones |-> cache,
          requests |-> ZonesRequests(cache, resp)]
    ELSE IF ~EndsWith(r_name, Dot)
    THEN [exc |-> PDNSCanonicalError(r_name), ret |-> None,
          zones |-> ZonesCache(cache, resp), requests |-> ZonesRequests(cache, resp)]
    ELSE [exc |-> NoExc,
          ret |-> SuggestLoop(r_name, ZonesCache(cache, resp).list, 1, None),
          zones |-> ZonesCache(cache, resp),
          requests |-> ZonesRequests(cache, resp)]

\* PDNSServer.suggest_zone: what it raises and returns, self._zones after it
\* and the transport calls it issued
suggest_zone(cache, r_name, resp) ==
    IF ~EndsWith(r_name, Dot)
    THEN [exc |-> PDNSCanonicalError(r_name), ret |-> None, zones |-> cache,
          requests |-> <<>>]
    ELSE IF ZonesExc(cache, resp) # NoExc
    THEN [exc |-> PDNSError, ret |-> None, zones |-> cache,
          requests |-> ZonesRequests(cache, resp)]
    ELSE [exc |-> NoExc,
          ret |-> SuggestLoop(r_name, ZonesCache(cache, resp).list, 1, None),
          zones |-> ZonesCache(cache, resp),
          requests |-> ZonesRequests(cache, resp)]

-----------------------------------------------------------------------------
(* The server specification: the zone list is read and searched; every       *)
(* listing the transport may return is tried                                 *)

MaxZoneLen == 1

MaxZones == 2

ZoneNames == Strs(MaxZoneLen)

RecordNames == Strs(MaxZoneLen + 2)

\* what GET <url>/zones may answer
ZoneListings == {Ok(l) : l \in SeqsUpTo(ZoneNames, MaxZones)} \cup {Raised}

\* the answers that matter to a read of zones: none when the cache is used
AnswersFor(cache) == IF TruthyList(cache) THEN {Raised} ELSE ZoneListings

InitServer ==
    /\ rrset = None
    /\ call = Start
    /\ pre = None
    /\ exc = NoExc
    /\ ret = None
    /\ _zones = None
    /\ zone_name = <<>>
    /\ _details = None
    /\ requests = <<>>
    /\ rrsets = <<>>
    /\ fetched = 0
    /\ _servers = None
    /\ listings = 0
    /\ zone_details = <<>>
    /\ _api_key = ""
    /\ request_headers = DefaultHeaders
    /\ threads = <<>>

Zones ==
    /\ \E resp \in AnswersFor(_zones) :
          /\ _zones' = ZonesCache(_zones, resp)
          /\ exc' = ZonesExc(_zones, resp)
          /\ ret' = IF ZonesExc(_zones, resp) = NoExc
                    THEN ZonesCache(_zones, resp) ELSE None
          /\ requests' = ZonesRequests(_zones, resp)
    /\ call' = [op |-> "zones"]
    /\ pre' = _zones
    /\ UNCHANGED <<clientVars, threads, rrset, zoneVars, endpointVars>>

SuggestZone ==
    /\ \E r_name \in RecordNames, resp \in AnswersFor(_zones) :
          LET out == suggest_zone(_zones, r_name, resp)
          IN  /\ _zones' = out.zones
              /\ exc' = out.exc
              /\ ret' = out.ret
              /\ requests' = out.requests
              /\ call' = [op |-> "suggest_zone", r_name |-> r_name]
    /\ pre' = _zones
    /\ UNCHANGED <<clientVars, threads, rrset, zoneVars, endpointVars>>

NextServer == Zones \/ SuggestZone

SpecServer == InitServer /\ [][NextServer]_vars

-----------------------------------------------------------------------------
(* PDNSZone *)

KeyError == [kind |-> "KeyError"]

\* self.url = '%s/zones/%s' % (self.server.url, self.name)
ZoneUrl(name) == <<"zones", name>>

\* self.url + '/notify'
NotifyUrl(name) == <<"zones", name, "notify">>

\* the exception a call of the transport that answered resp raises
TransportExc(resp) == IF resp.ok THEN NoExc ELSE PDNSError

\* the value a call of the transport that answered resp returns
TransportRet(resp) == IF resp.ok THEN resp.data ELSE None

\* the details property: the exception it raises
DetailsExc(cache, resp) ==
    IF ~Truthy(cache) THEN TransportExc(resp) ELSE NoExc

\* the details property: self._details after the read
DetailsCache(cache, resp) ==
    IF ~Truthy(cache) /\ resp.ok THEN resp.data ELSE cache

\* a design the code does not have: a GET that failed is issued once more
DetailsRequests_Retried(name, cache, resp) ==
    IF Truthy(cache) THEN <<>>
    ELSE IF resp.ok THEN <<Request("GET", ZoneUrl(name), <<>>, resp)>>
    ELSE <<Request("GET", ZoneUrl(name), <<>>, resp),
           Request("GET", ZoneUrl(name), <<>>, resp)>>

\* the details property: the transport calls it issues
DetailsRequests(name, cache, resp) ==
    IF ~Truthy(cache)
    THEN <<Request("GET", ZoneUrl(name), <<>>, resp)>>
    ELSE <<>>

\* the value the details property returns when it raises nothing
DetailsRet(cache, resp) == DetailsCache(cache, resp)

\* self.details['rrsets']: the exception of the subscript
RRSetsExc(details) ==
    IF "rrsets" \in DOMAIN details THEN NoExc ELSE KeyError

\* a slip: the loop of get_record stops at the first entry that matches
MatchingRecords_FirstOnly(name, listed) ==
    LET all == SelectSeq(listed, LAMBDA record : name = record.name)
    IN  IF all = <<>> THEN <<>> ELSE <<all[1]>>

\* the loop of get_record: the entries whose name is the argument, in order
MatchingRecords(name, listed) == SelectSeq(listed, LAMBDA record : name = record.name)

\* an RRSet as the transport serializes it: the items of the dict
Wire(rr) == [k \in DOMAIN rr \ {"raw_records"} |-> rr[k]]

\* a design the code does not have: the cache is reset once the PATCH succeeded
DetailsAfterReset_OnSuccess(cache, resp) == IF resp.ok THEN None ELSE cache

\* self._details = None, before the PATCH is issued
DetailsAfterReset(cache, resp) == None

\* the first RRSet of the list on which ensure_canonical raises; 0 if none
FirstRaising(name, rrs) ==
    IF \E i \in 1..Len(rrs) : EnsureCanonicalExc(rrs[i], name) # NoExc
    THEN CHOOSE i \in 1..Len(rrs) :
            /\ EnsureCanonicalExc(rrs[i], name) # NoExc
            /\ \A j \in 1..(i - 1) : EnsureCanonicalExc(rrs[j], name) = NoExc
    ELSE 0

\* a slip: the changetype the RRSet was constructed with is sent
Prepared_KeepsChangetype(name, rr, changetype) == EnsureCanonical(rr, name)

\* rrset.ensure_canonical(self.name); rrset['changetype'] = changetype
Prepared(name, rr, changetype) ==
    [EnsureCanonical(rr, name) EXCEPT !.changetype = changetype]

\* a slip: the cache is reset before the loop over the RRSets, so that a
\* refused RRSet leaves it reset
change_records_ResetsFirst(name, cache, rrs, changetype, resp) ==
    LET k == FirstRaising(name, rrs)
        done == [i \in 1..Len(rrs) |->
                    IF k = 0 \/ i < k
                    THEN Prepared(name, rrs[i], changetype)
                    ELSE rrs[i]]
    IN  IF k # 0
        THEN [exc |-> EnsureCanonicalExc(rrs[k], name), ret |-> None,
              details |-> None, rrsets |-> done, requests |-> <<>>]
        ELSE [exc |-> TransportExc(resp), ret |-> TransportRet(resp),
              details |-> DetailsAfterReset(cache, resp), rrsets |-> done,
              requests |-> <<Request("PATCH", ZoneUrl(name),
                                     [rrsets |-> [i \in 1..Len(done) |-> Wire(done[i])]],
                                     resp)>>]

\* PDNSZone.create_records (changetype REPLACE) and delete_records
\* (changetype DELETE), on a list of distinct RRSet objects: what the call
\* raises and returns, self._details and the RRSets after it, and the
\* transport calls it issued
change_records(name, cache, rrs, changetype, resp) ==
    LET k == FirstRaising(name, rrs)
        done == [i \in 1..Len(rrs) |->
                    IF k = 0 \/ i < k
                    THEN Prepared(name, rrs[i], changetype)
                    ELSE rrs[i]]
    IN  IF k # 0
        THEN [exc |-> EnsureCanonicalExc(rrs[k], name), ret |-> None,
              details |-> cache, rrsets |-> done, requests |-> <<>>]
        ELSE [exc |-> TransportExc(resp), ret |-> TransportRet(resp),
              details |-> DetailsAfterReset(cache, resp), rrsets |-> done,
              requests |-> <<Request("PATCH", ZoneUrl(name),
                                     [rrsets |-> [i \in 1..Len(done) |-> Wire(done[i])]],
                                     resp)>>]

-----------------------------------------------------------------------------
(* The zone specification: one PDNSZone is read and changed; every answer    *)
(* the transport may give is tried                                           *)

MaxListed == 2

MaxRRSets == 2

MaxFetched == 2

ZoneObjectNames == {<<"a", ".">>, <<"a">>}

\* the entries of a zone's rrsets as the server lists them
ListedRRSets ==
    {[name |-> <<"a", ".">>, type |-> "A"],
     [name |-> <<"a", ".">>, type |-> "CNAME"],
     [name |-> <<"a">>, type |-> "A"]}

\* the detail blobs of a zone; the empty blob stands for {} and for the ""
\* of a 204 answer
ZoneBlobs ==
    {[id |-> <<"a", ".">>, rrsets |-> l] : l \in SeqsUpTo(ListedRRSets, MaxListed)}
    \cup {<<>>}

\* what GET <zone url> may answer
DetailAnswers == {Ok(b) : b \in ZoneBlobs} \cup {Raised}

\* the answers that matter to a read of details: none when the cache is used
DetailAnswersFor(cache) == IF Truthy(cache) THEN {Raised} ELSE DetailAnswers

\* what PATCH <zone url> and PUT <zone url>/notify may answer
NoContentAnswers == {Ok(<<>>), Raised}

\* the RRSets the caller builds and passes
ArgRRSets ==
    {NewRRSet(<<"a">>, "A", <<[kind |-> "str", content |-> <<"a">>]>>,
              DefaultTTL, "DELETE", <<>>).obj,
     NewRRSet(<<"a", ".">>, "CNAME",
              <<[kind |-> "dict", d |-> [content |-> <<"a">>]]>>,
              DefaultTTL, "REPLACE", <<>>).obj}

RecordArgs == {<<"a", ".">>, <<"a">>}

InitZone ==
    /\ rrset = None
    /\ call = Start
    /\ pre = None
    /\ exc = NoExc
    /\ ret = None
    /\ _zones = None
    /\ zone_name \in ZoneObjectNames
    /\ _details = None
    /\ requests = <<>>
    /\ rrsets = <<>>
    /\ fetched = 0
    /\ _servers = None
    /\ listings = 0
    /\ zone_details = <<>>
    /\ _api_key = ""
    /\ request_headers = DefaultHeaders
    /\ threads = <<>>

\* a read may fetch only while the count of fetches is below its cap
MayRead == Truthy(_details) \/ fetched < MaxFetched

\* the count of fetches after a read that was answered resp
Counted(resp) ==
    IF ~Truthy(_details) /\ resp.ok THEN fetched + 1 ELSE fetched

Details ==
    /\ MayRead
    /\ \E resp \in DetailAnswersFor(_details) :
          /\ _details' = DetailsCache(_details, resp)
          /\ exc' = DetailsExc(_details, resp)
          /\ ret' = IF DetailsExc(_details, resp) = NoExc
                    THEN DetailsRet(_details, resp) ELSE None
          /\ requests' = DetailsRequests(zone_name, _details, resp)
          /\ fetched' = Counted(resp)
    /\ call' = [op |-> "details"]
    /\ pre' = None
    /\ rrsets' = <<>>
    /\ UNCHANGED <<clientVars, threads, rrset, _zones, zone_name, endpointVars>>

Records ==
    /\ MayRead
    /\ \E resp \in DetailAnswersFor(_details) :
          LET e == DetailsExc(_details, resp)
              d == DetailsCache(_details, resp)
          IN  /\ _details' = d
              /\ exc' = IF e # NoExc THEN e ELSE RRSetsExc(d)
              /\ ret' = IF e = NoExc /\ RRSetsExc(d) = NoExc
                        THEN List(d.rrsets) ELSE None
              /\ requests' = DetailsRequests(zone_name, _details, resp)
              /\ fetched' = Counted(resp)
    /\ call' = [op |-> "records"]
    /\ pre' = None
    /\ rrsets' = <<>>
    /\ UNCHANGED <<clientVars, threads, rrset, _zones, zone_name, endpointVars>>

GetRecord ==
    /\ MayRead
    /\ \E name \in RecordArgs, resp \in DetailAnswersFor(_details) :
          LET e == DetailsExc(_details, resp)
              d == DetailsCache(_details, resp)
          IN  /\ _details' = d
              /\ exc' = IF e # NoExc THEN e ELSE RRSetsExc(d)
              /\ ret' = IF e = NoExc /\ RRSetsExc(d) = NoExc
                        THEN List(MatchingRecords(name, d.rrsets)) ELSE None
              /\ requests' = DetailsRequests(zone_name, _details, resp)
              /\ fetched' = Counted(resp)
              /\ call' = [op |-> "get_record", name |-> name]
    /\ pre' = None
    /\ rrsets' = <<>>
    /\ UNCHANGED <<clientVars, threads, rrset, _zones, zone_name, endpointVars>>

Backup ==
    /\ MayRead
    /\ \E resp \in DetailAnswersFor(_details) :
          /\ _details' = DetailsCache(_details, resp)
          /\ exc' = DetailsExc(_details, resp)
          /\ requests' = DetailsRequests(zone_name, _details, resp)
          /\ fetched' = Counted(resp)
    /\ ret' = None
    /\ call' = [op |-> "backup"]
    /\ pre' = None
    /\ rrsets' = <<>>
    /\ UNCHANGED <<clientVars, threads, rrset, _zones, zone_name, endpointVars>>

Notify ==
    /\ \E resp \in NoContentAnswers :
          /\ exc' = TransportExc(resp)
          /\ ret' = TransportRet(resp)
          /\ requests' = <<Request("PUT", NotifyUrl(zone_name), <<>>, resp)>>
    /\ call' = [op |-> "notify"]
    /\ pre' = None
    /\ rrsets' = <<>>
    /\ UNCHANGED <<clientVars, threads, rrset, _zones, zone_name, _details, fetched, endpointVars>>

CreateRecords ==
    /\ \E rrs \in SeqsUpTo(ArgRRSets, MaxRRSets), resp \in NoContentAnswers :
          LET out == change_records(zone_name, _details, rrs, "REPLACE", resp)
          IN  /\ _details' = out.details
              /\ exc' = out.exc
              /\ ret' = out.ret
              /\ requests' = out.requests
              /\ rrsets' = out.rrsets
              /\ call' = [op |-> "create_records", rrsets |-> rrs]
    /\ pre' = _details
    /\ fetched' = 0
    /\ UNCHANGED <<clientVars, threads, rrset, _zones, zone_name, endpointVars>>

DeleteRecords ==
    /\ \E rrs \in SeqsUpTo(ArgRRSets, MaxRRSets), resp \in NoContentAnswers :
          LET out == change_records(zone_name, _details, rrs, "DELETE", resp)
          IN  /\ _details' = out.details
              /\ exc' = out.exc
              /\ ret' = out.ret
              /\ requests' = out.requests
              /\ rrsets' = out.rrsets
              /\ call' = [op |-> "delete_records", rrsets |-> rrs]
    /\ pre' = _details
    /\ fetched' = 0
    /\ UNCHANGED <<clientVars, threads, rrset, _zones, zone_name, endpointVars>>

NextZone ==
    \/ Details
    \/ Records
    \/ GetRecord
    \/ Backup
    \/ Notify
    \/ CreateRecords
    \/ DeleteRecords

SpecZone == InitZone /\ [][NextZone]_vars

-----------------------------------------------------------------------------
(* PDNSEndpoint, and the operations of PDNSServer on its zones *)

AttributeError == [kind |-> "AttributeError"]

IOError == [kind |-> "IOError"]

\* PDNSServer.__init__ for the i-th item of a server listing
PDNSServer(data, i) == [sid |-> data.id, idx |-> i]

\* self._get('/servers'), answered resp
GetServers(resp) == Request("GET", <<"servers">>, <<>>, resp)

\* PDNSEndpoint.servers: what it raises and returns, self._servers after it
\* and the transport calls it issued
servers(cache, resp) ==
    IF TruthyList(cache)
    THEN [exc |-> NoExc, ret |-> cache, servers |-> cache, requests |-> <<>>]
    ELSE IF ~resp.ok
    THEN [exc |-> PDNSError, ret |-> None, servers |-> cache,
          requests |-> <<GetServers(resp)>>]
    ELSE LET built == List([i \in 1..Len(resp.data) |-> PDNSServer(resp.data[i], i)])
         IN  [exc |-> NoExc, ret |-> built, servers |-> built,
              requests |-> <<GetServers(resp)>>]

\* '%s/config' % self.url
ConfigUrl == <<"config">>

DefaultMaxResult == 100

\* '%s/search-data?q=%s&max=%d' % (self.url, search_term, max_result)
SearchUrl(search_term, max_result) == <<"search-data", search_term, max_result>>

\* '%s/zones' % self.url
ZonesUrl == <<"zones">>

\* the _details of the zones of the list after a read of zones: every zone of
\* a new list is built with _details None
ZoneDetailsCache(cache, resp, details) ==
    IF ~TruthyList(cache) /\ resp.ok
    THEN [i \in 1..Len(resp.data) |-> None]
    ELSE details

RECURSIVE LastNamed(_, _, _)
\* a slip: the loop goes on after a match, so that the last match is returned
LastNamed(name, zones, i) ==
    IF i > Len(zones)
    THEN None
    ELSE LET later == LastNamed(name, zones, i + 1)
         IN  IF later # None THEN later
             ELSE IF zones[i].name = name THEN zones[i] ELSE None

RECURSIVE FirstNamed(_, _, _)
\* the loop of get_zone over zones[i..]: the first zone named name, else None
FirstNamed(name, zones, i) ==
    IF i > Len(zones)
    THEN None
    ELSE IF zones[i].name = name
    THEN zones[i]
    ELSE FirstNamed(name, zones, i + 1)

\* PDNSServer.get_zone: what it raises and returns, self._zones after it and
\* the transport calls it issued
get_zone(cache, name, resp) ==
    IF ZonesExc(cache, resp) # NoExc
    THEN [exc |-> PDNSError, ret |-> None, zones |-> cache,
          requests |-> ZonesRequests(cache, resp)]
    ELSE [exc |-> NoExc,
          ret |-> FirstNamed(name, ZonesCache(cache, resp).list, 1),
          zones |-> ZonesCache(cache, resp),
          requests |-> ZonesRequests(cache, resp)]

\* the zone_data of create_zone: masters, servers and rrsets are keys only
\* when the argument is true (neither None nor empty)
ZoneData(a) ==
    LET keys == {"name", "kind", "nameservers"}
                \cup {k \in {"masters", "servers", "rrsets"} : Len(a[k]) > 0}
    IN  [k \in keys |-> a[k]]

\* a design the code does not have: the cache is reset whatever the answer
Submitted_AlwaysResets(method, path, data, resp, zones, details, before) ==
    LET sent == before \o <<Request(method, path, data, resp)>>
    IN  IF ~resp.ok
        THEN [exc |-> PDNSError, ret |-> None, zones |-> None,
              details |-> <<>>, requests |-> sent]
        ELSE IF Truthy(resp.data)
        THEN [exc |-> NoExc, ret |-> PDNSZone(resp.data.name, 0),
              zones |-> None, details |-> <<>>, requests |-> sent]
        ELSE [exc |-> NoExc, ret |-> None, zones |-> None,
              details |-> <<>>, requests |-> sent]

\* the outcome of the POST or PATCH of create_zone, issued after the transport
\* calls before and with the cache and the zones' details as they then are
Submitted(method, path, data, resp, zones, details, before) ==
    LET sent == before \o <<Request(method, path, data, resp)>>
    IN  IF ~resp.ok
        THEN [exc |-> PDNSError, ret |-> None, zones |-> zones,
              details |-> details, requests |-> sent]
        ELSE IF Truthy(resp.data)
        THEN [exc |-> NoExc, ret |-> PDNSZone(resp.data.name, 0),
              zones |-> None, details |-> <<>>, requests |-> sent]
        ELSE [exc |-> NoExc, ret |-> None, zones |-> zones,
              details |-> details, requests |-> sent]

\* a slip: the PATCH goes to the URL of the zone, made of its name
UpdateUrl_ByName(zone, details) == <<"zones", zone.name>>

\* "{}/zones/{}".format(self.url, zone_id), zone_id being the id of the details
UpdateUrl(zone, details) == <<"zones", details.id>>

\* PDNSServer.create_zone with the arguments a: what it raises and returns,
\* self._zones and the _details of the listed zones after it, and the
\* transport calls it issued.  listing answers the GET of the zone list,
\* detail the GET of the zone found, resp the POST or the PATCH.
create_zone(cache, details, a, listing, detail, resp) ==
    IF a.update
    THEN LET found == get_zone(cache, a.name, listing)
             listed == ZoneDetailsCache(cache, listing, details)
         IN  IF found.exc # NoExc
             THEN [exc |-> found.exc, ret |-> None, zones |-> found.zones,
                   details |-> details, requests |-> found.requests]
             ELSE IF found.ret = None
             THEN [exc |-> AttributeError, ret |-> None, zones |-> found.zones,
                   details |-> listed, requests |-> found.requests]
             ELSE LET i == found.ret.idx
                      d == DetailsCache(listed[i], detail)
                      after == [listed EXCEPT ![i] = d]
                      gets == found.requests
                              \o DetailsRequests(found.ret.name, listed[i], detail)
                  IN  IF DetailsExc(listed[i], detail) # NoExc
                      THEN [exc |-> PDNSError, ret |-> None,
                            zones |-> found.zones, details |-> listed,
                            requests |-> gets]
                      ELSE IF "id" \notin DOMAIN d
                      THEN [exc |-> KeyError, ret |-> None,
                            zones |-> found.zones, details |-> after,
                            requests |-> gets]
                      ELSE Submitted("PATCH", UpdateUrl(found.ret, d), ZoneData(a),
                                     resp, found.zones, after, gets)
    ELSE Submitted("POST", ZonesUrl, ZoneData(a), resp, cache, details, <<>>)

\* a design the code does not have: the cache is reset once the DELETE succeeded
ZonesAfterDelete_OnSuccess(cache, resp) == IF resp.ok THEN None ELSE cache

\* self._zones = None, before the DELETE is issued
ZonesAfterDelete(cache, resp) == None

\* PDNSServer.delete_zone
delete_zone(cache, details, name, resp) ==
    [exc |-> TransportExc(resp), ret |-> TransportRet(resp),
     zones |-> ZonesAfterDelete(cache, resp),
     details |-> IF ZonesAfterDelete(cache, resp) = None THEN <<>> ELSE details,
     requests |-> <<Request("DELETE", <<"zones", name>>, <<>>, resp)>>]

\* the file open(json_file) cannot read, or json.load cannot decode
NoFile == [kind |-> "NoFile"]

\* a slip: the backup is posted as it was read, its nameservers kept
WithoutNameservers_AsBackedUp(zone_data) == zone_data

\* zone_data['nameservers'] = []
WithoutNameservers(zone_data) ==
    [k \in DOMAIN zone_data \cup {"nameservers"} |->
        IF k = "nameservers" THEN <<>> ELSE zone_data[k]]

\* PDNSServer.restore_zone, file being what json_file holds
restore_zone(cache, details, file, resp) ==
    IF file = NoFile
    THEN [exc |-> IOError, ret |-> None, zones |-> cache, details |-> details,
          requests |-> <<>>]
    ELSE IF "name" \notin DOMAIN file
    THEN [exc |-> KeyError, ret |-> None, zones |-> None, details |-> <<>>,
          requests |-> <<>>]
    ELSE [exc |-> TransportExc(resp),
          ret |-> IF resp.ok /\ Truthy(resp.data)
                  THEN PDNSZone(resp.data.name, 0) ELSE None,
          zones |-> None, details |-> <<>>,
          requests |-> <<Request("POST", ZonesUrl, WithoutNameservers(file), resp)>>]

-----------------------------------------------------------------------------
(* The endpoint specification: the servers of an endpoint are listed, and    *)
(* the zones of one server are listed, looked up, created, deleted and       *)
(* restored; every answer the transport may give is tried                    *)

MaxServers == 1

MaxListedZones == 2

MaxListings == 2

ServerData == {[id |-> <<"a">>]}

\* what GET /servers may answer
ServerListings == {Ok(l) : l \in SeqsUpTo(ServerData, MaxServers)} \cup {Raised}

\* the answers that matter to a read of servers: none when the cache is used
ServerAnswersFor(cache) == IF TruthyList(cache) THEN {Raised} ELSE ServerListings

ListedNames == {<<"a", ".">>, <<"a">>}

\* what GET <url>/zones may answer to the server under test
NameListings ==
    {Ok(l) : l \in SeqsUpTo(ListedNames, MaxListedZones)} \cup {Raised}

\* the answers that matter to a read of zones: none when the cache is used
ListingsFor(cache) == IF TruthyList(cache) THEN {Raised} ELSE NameListings

\* what POST <url>/zones and PATCH <url>/zones/<id> may answer; the empty
\* value stands for {} and for the "" of a 204 answer
ZoneAnswers == {Ok([name |-> <<"a", ".">>]), Ok(<<>>), Raised}

\* what GET <zone url> may answer to create_zone
IdAnswers == {Ok([id |-> <<"=", "a", ".">>]), Ok(<<>>), Raised}

\* what the other calls may answer
PlainAnswers == {Ok(<<>>), Ok(<<"a">>), Raised}

\* the arguments of create_zone; <<>> stands for None and for []
CreateArgs ==
    {[name |-> n, kind |-> "Native", nameservers |-> <<<<"n", ".">>>>,
      masters |-> m, servers |-> <<>>, rrsets |-> <<>>, update |-> u] :
        n \in {<<"a", ".">>}, m \in {<<>>, <<<<"m">>>>}, u \in BOOLEAN}

\* what the file passed to restore_zone may hold
BackupFiles ==
    {NoFile,
     [kind |-> "Native"],
     [name |-> <<"a", ".">>, kind |-> "Native"],
     [name |-> <<"a", ".">>, kind |-> "Native", nameservers |-> <<<<"n", ".">>>>]}

SuggestArgs == {<<"a", ".", "a", ".">>, <<"a">>}

SearchArgs == {<<"a">>}

InitEndpoint ==
    /\ rrset = None
    /\ call = Start
    /\ pre = None
    /\ exc = NoExc
    /\ ret = None
    /\ _zones = None
    /\ zone_name = <<>>
    /\ _details = None
    /\ requests = <<>>
    /\ rrsets = <<>>
    /\ fetched = 0
    /\ _servers = None
    /\ listings = 0
    /\ zone_details = <<>>
    /\ _api_key = ""
    /\ request_headers = DefaultHeaders
    /\ threads = <<>>

\* a read may list only while the count of listings is below its cap
MayList == TruthyList(_zones) \/ listings < MaxListings

\* the count of listings after a read that was answered resp
CountedListing(resp) ==
    IF ~TruthyList(_zones) /\ resp.ok THEN listings + 1 ELSE listings

Servers ==
    /\ \E resp \in ServerAnswersFor(_servers) :
          LET out == servers(_servers, resp)
          IN  /\ _servers' = out.servers
              /\ exc' = out.exc
              /\ ret' = out.ret
              /\ requests' = out.requests
    /\ call' = [op |-> "servers"]
    /\ pre' = _servers
    /\ UNCHANGED <<clientVars, threads, rrset, _zones, zoneVars, listings, zone_details>>

Config ==
    /\ \E resp \in PlainAnswers :
          /\ exc' = TransportExc(resp)
          /\ ret' = TransportRet(resp)
          /\ requests' = <<Request("GET", ConfigUrl, <<>>, resp)>>
    /\ call' = [op |-> "config"]
    /\ pre' = _zones
    /\ UNCHANGED <<clientVars, threads, rrset, _zones, zoneVars, endpointVars>>

Search ==
    /\ \E search_term \in SearchArgs, resp \in PlainAnswers :
          /\ exc' = TransportExc(resp)
          /\ ret' = TransportRet(resp)
          /\ requests' = <<Request("GET", SearchUrl(search_term, DefaultMaxResult),
                                   <<>>, resp)>>
          /\ call' = [op |-> "search", search_term |-> search_term]
    /\ pre' = _zones
    /\ UNCHANGED <<clientVars, threads, rrset, _zones, zoneVars, endpointVars>>

ListZones ==
    /\ MayList
    /\ \E resp \in ListingsFor(_zones) :
          /\ _zones' = ZonesCache(_zones, resp)
          /\ zone_details' = ZoneDetailsCache(_zones, resp, zone_details)
          /\ exc' = ZonesExc(_zones, resp)
          /\ ret' = IF ZonesExc(_zones, resp) = NoExc
                    THEN ZonesCache(_zones, resp) ELSE None
          /\ listings' = CountedListing(resp)
          /\ requests' = ZonesRequests(_zones, resp)
    /\ call' = [op |-> "zones"]
    /\ pre' = _zones
    /\ UNCHANGED <<clientVars, threads, rrset, zoneVars, _servers>>

GetZone ==
    /\ MayList
    /\ \E name \in ListedNames, resp \in ListingsFor(_zones) :
          LET out == get_zone(_zones, name, resp)
          IN  /\ _zones' = out.zones
              /\ zone_details' = ZoneDetailsCache(_zones, resp, zone_details)
              /\ exc' = out.exc
              /\ ret' = out.ret
              /\ requests' = out.requests
              /\ listings' = CountedListing(resp)
              /\ call' = [op |-> "get_zone", name |-> name]
    /\ pre' = _zones
    /\ UNCHANGED <<clientVars, threads, rrset, zoneVars, _servers>>

SuggestListed ==
    /\ MayList
    /\ \E r_name \in SuggestArgs, resp \in ListingsFor(_zones) :
          LET out == suggest_zone(_zones, r_name, resp)
          IN  /\ _zones' = out.zones
              /\ zone_details' = IF out.requests = <<>> THEN zone_details
                                 ELSE ZoneDetailsCache(_zones, resp, zone_details)
              /\ exc' = out.exc
              /\ ret' = out.ret
              /\ requests' = out.requests
              /\ listings' = IF out.requests = <<>> THEN listings
                             ELSE CountedListing(resp)
              /\ call' = [op |-> "suggest_zone", r_name |-> r_name]
    /\ pre' = _zones
    /\ UNCHANGED <<clientVars, threads, rrset, zoneVars, _servers>>

CreateZone ==
    /\ \E a \in CreateArgs :
       \E listing \in IF a.update THEN ListingsFor(_zones) ELSE {Raised} :
       \E detail \in IF a.update THEN IdAnswers ELSE {Raised} :
       \E resp \in ZoneAnswers :
          LET out == create_zone(_zones, zone_details, a, listing, detail, resp)
          IN  /\ _zones' = out.zones
              /\ zone_details' = out.details
              /\ exc' = out.exc
              /\ ret' = out.ret
              /\ requests' = out.requests
              /\ call' = [op |-> "create_zone", a |-> a]
    /\ pre' = _zones
    /\ listings' = 0
    /\ UNCHANGED <<clientVars, threads, rrset, zoneVars, _servers>>

DeleteZone ==
    /\ \E name \in ListedNames, resp \in PlainAnswers :
          LET out == delete_zone(_zones, zone_details, name, resp)
          IN  /\ _zones' = out.zones
              /\ zone_details' = out.details
              /\ exc' = out.exc
              /\ ret' = out.ret
              /\ requests' = out.requests
              /\ call' = [op |-> "delete_zone", name |-> name]
    /\ pre' = _zones
    /\ listings' = 0
    /\ UNCHANGED <<clientVars, threads, rrset, zoneVars, _servers>>

RestoreZone ==
    /\ \E file \in BackupFiles, resp \in ZoneAnswers :
          LET out == restore_zone(_zones, zone_details, file, resp)
          IN  /\ _zones' = out.zones
              /\ zone_details' = out.details
              /\ exc' = out.exc
              /\ ret' = out.ret
              /\ requests' = out.requests
              /\ call' = [op |-> "restore_zone", file |-> file]
    /\ pre' = _zones
    /\ listings' = 0
    /\ UNCHANGED <<clientVars, threads, rrset, zoneVars, _servers>>

NextEndpoint ==
    \/ Servers
    \/ Config
    \/ Search
    \/ ListZones
    \/ GetZone
    \/ SuggestListed
    \/ CreateZone
    \/ DeleteZone
    \/ RestoreZone

SpecEndpoint == InitEndpoint /\ [][NextEndpoint]_vars

-----------------------------------------------------------------------------
(* PDNSApiClient *)

\* PDNSError(url, status_code, message)
PDNSErrorOf(url, status_code, message) ==
    [kind |-> "PDNSError", url |-> url, status_code |-> status_code,
     message |-> message]

\* self._api_endpoint; a URL is a sequence of pieces
ApiEndpoint == <<"http://", "h", "/", "api">>

RECURSIVE LStrip(_)
\* path.lstrip('/')
LStrip(path) ==
    IF path # <<>> /\ Head(path) = "/" THEN LStrip(Tail(path)) ELSE path

\* the URL request builds from path
Url(path) ==
    IF path # <<>> /\ Head(path) \in {"http://", "https://"}
    THEN path
    ELSE ApiEndpoint \o <<"/">> \o LStrip(path)

\* the data request passes to json.dumps: {} when data is None
Dumped(data) == IF data = None THEN <<>> ELSE data

\* self.request_headers once request has looked at self._api_key
Headers(api_key, headers) ==
    IF api_key # ""
    THEN [k \in DOMAIN headers \cup {"X-API-Key"} |->
             IF k = "X-API-Key" THEN api_key ELSE headers[k]]
    ELSE headers

\* what response.json() gives: a dict, a list, or no value when it raises
NotJson == [json |-> "not"]

JsonDict(d) == [json |-> "dict", value |-> d]

JsonList(l) == [json |-> "list", value |-> l]

\* response.json(), for the response texts of the model (written without the
\* quotes of JSON)
Json(text) ==
    CASE text = "{}" -> JsonDict(<<>>)
      [] text = "{error: e}" -> JsonDict([error |-> "e"])
      [] text = "{errors: es}" -> JsonDict([errors |-> "es"])
      [] text = "{error: e, errors: es}" -> JsonDict([error |-> "e", errors |-> "es"])
      [] text = "{name: a.}" -> JsonDict([name |-> "a."])
      [] text = "[]" -> JsonList(<<>>)
      [] text = "[error]" -> JsonList(<<"error">>)
      [] OTHER -> NotJson

\* key in response, for a dict and for a list
In(key, response) ==
    IF response.json = "dict"
    THEN key \in DOMAIN response.value
    ELSE \E i \in 1..Len(response.value) : response.value[i] = key

\* response.get(key): a list has no get
Get(response, key) ==
    IF response.json = "dict"
    THEN [exc |-> NoExc, err |-> response.value[key]]
    ELSE [exc |-> AttributeError, err |-> ""]

\* PDNSApiClient._get_error: the message, or the exception it raises
_get_error(response) ==
    IF In("error", response) THEN Get(response, "error")
    ELSE IF In("errors", response) THEN Get(response, "errors")
    ELSE [exc |-> NoExc, err |-> "No error message found"]

\* the error_message of request for a status that is none of 200, 201, 204
ErrorMessage(response) ==
    IF response.status_code = 404
    THEN "Not found"
    ELSE IF Json(response.text) = NotJson
    THEN response.text
    ELSE IF _get_error(Json(response.text)).exc # NoExc
    THEN response.text
    ELSE _get_error(Json(response.text)).err

\* a slip: 202 is taken for a success too
Succeeded_Any20x(status_code) == status_code \in {200, 201, 202}

\* response.status_code in [200, 201]
Succeeded(status_code) == status_code \in {200, 201}

\* PDNSApiClient.request, response being what requests.request returned: what
\* it raises and returns
request(path, method, data, response) ==
    IF Succeeded(response.status_code)
    THEN IF Json(response.text) = NotJson
         THEN [exc |-> ValueError, ret |-> None]
         ELSE [exc |-> NoExc, ret |-> Json(response.text)]
    ELSE IF response.status_code = 204
    THEN [exc |-> NoExc, ret |-> <<>>]
    ELSE [exc |-> PDNSErrorOf(response.url, response.status_code,
                              ErrorMessage(response)),
          ret |-> None]

-----------------------------------------------------------------------------
(* The client specification: requests are made through one PDNSApiClient;    *)
(* every response of the model is tried                                      *)

\* "" stands for an api_key that is None or empty
ApiKeys == {"", "k"}

Methods == {"GET", "PATCH"}

Paths == {<<"/", "servers">>, <<"servers">>, <<"https://", "h", "/", "servers">>}

Payloads == {None, [rrsets |-> <<>>]}

StatusCodes == {200, 201, 204, 404, 202, 400, 500}

Texts ==
    {"", "<html>", "{}", "{error: e}", "{errors: es}", "{error: e, errors: es}",
     "{name: a.}", "[]", "[error]"}

\* the URL of the response: the one requested, or another after a redirect
ResponseUrls(url) == {url, <<"http://", "elsewhere">>}

Responses(url) ==
    {[status_code |-> c, text |-> t, url |-> u] :
        c \in StatusCodes, t \in Texts, u \in ResponseUrls(url)}

InitClient ==
    /\ rrset = None
    /\ call = Start
    /\ pre = None
    /\ exc = NoExc
    /\ ret = None
    /\ _zones = None
    /\ zone_name = <<>>
    /\ _details = None
    /\ requests = <<>>
    /\ rrsets = <<>>
    /\ fetched = 0
    /\ _servers = None
    /\ listings = 0
    /\ zone_details = <<>>
    /\ _api_key \in ApiKeys
    /\ request_headers = DefaultHeaders
    /\ threads = <<>>

DoRequest ==
    /\ \E path \in Paths, method \in Methods, data \in Payloads :
       \E response \in Responses(Url(path)) :
          LET out == request(path, method, data, response)
          IN  /\ exc' = out.exc
              /\ ret' = out.ret
              /\ requests' = <<Request(method, Url(path), Dumped(data), response)>>
              /\ call' = [op |-> "request", path |-> path, method |-> method,
                          data |-> data]
    /\ request_headers' = Headers(_api_key, request_headers)
    /\ pre' = None
    /\ UNCHANGED <<threads, rrset, _zones, zoneVars, endpointVars, _api_key>>

NextClient == DoRequest

SpecClient == InitClient /\ [][NextClient]_vars

-----------------------------------------------------------------------------
(* The core specification: the caller holds one PDNSServer and one PDNSZone  *)
(* of it, and calls the core operations of both in any order; the zones the  *)
(* server lists are other PDNSZone objects.  Reads are not capped here, and   *)
(* the counts fetched and listings are not kept                              *)

\* what GET <url>/zones may answer to the server the caller holds: the
\* answers that matter to a read of zones, none when the cache is used
HeldListingsFor(cache) ==
    IF TruthyList(cache) THEN {Raised}
    ELSE {Ok(<<>>), Ok(<<<<"a", ".">>>>), Raised}

\* the lists of RRSets the caller passes to the zone it holds
HeldRRSets ==
    {<<>>} \cup {<<rr>> : rr \in ArgRRSets}
    \cup {pair \in ArgRRSets \X ArgRRSets : pair[1] # pair[2]}

\* a design the code does not have: the details of the zones built so far are
\* dropped along with the zone list
KeptDetails_WhileListed(details, zones) ==
    IF zones = None THEN None ELSE details

\* the _details of the PDNSZone the caller holds, once a method of the server
\* has left self._zones as zones: no method of PDNSServer assigns anything
\* of a PDNSZone object
KeptDetails(details, zones) == details

HeldDetails ==
    /\ \E resp \in IF Truthy(_details) THEN {Raised} ELSE IdAnswers :
          /\ _details' = DetailsCache(_details, resp)
          /\ exc' = DetailsExc(_details, resp)
          /\ ret' = IF DetailsExc(_details, resp) = NoExc
                    THEN DetailsRet(_details, resp) ELSE None
          /\ requests' = DetailsRequests(zone_name, _details, resp)
    /\ call' = [op |-> "details"]
    /\ pre' = None
    /\ rrsets' = <<>>
    /\ UNCHANGED <<clientVars, threads, rrset, _zones, zone_name, fetched,
                   endpointVars>>

HeldCreateRecords ==
    /\ \E rrs \in HeldRRSets, resp \in NoContentAnswers :
          LET out == change_records(zone_name, _details, rrs, "REPLACE", resp)
          IN  /\ _details' = out.details
              /\ exc' = out.exc
              /\ ret' = out.ret
              /\ requests' = out.requests
              /\ rrsets' = out.rrsets
              /\ call' = [op |-> "create_records", rrsets |-> rrs]
    /\ pre' = _details
    /\ UNCHANGED <<clientVars, threads, rrset, _zones, zone_name, fetched,
                   endpointVars>>

HeldDeleteRecords ==
    /\ \E rrs \in HeldRRSets, resp \in NoContentAnswers :
          LET out == change_records(zone_name, _details, rrs, "DELETE", resp)
          IN  /\ _details' = out.details
              /\ exc' = out.exc
              /\ ret' = out.ret
              /\ requests' = out.requests
              /\ rrsets' = out.rrsets
              /\ call' = [op |-> "delete_records", rrsets |-> rrs]
    /\ pre' = _details
    /\ UNCHANGED <<clientVars, threads, rrset, _zones, zone_name, fetched,
                   endpointVars>>

HeldZones ==
    /\ \E resp \in HeldListingsFor(_zones) :
          /\ _zones' = ZonesCache(_zones, resp)
          /\ zone_details' = ZoneDetailsCache(_zones, resp, zone_details)
          /\ exc' = ZonesExc(_zones, resp)
          /\ ret' = IF ZonesExc(_zones, resp) = NoExc
                    THEN ZonesCache(_zones, resp) ELSE None
          /\ requests' = ZonesRequests(_zones, resp)
    /\ call' = [op |-> "zones"]
    /\ pre' = _zones
    /\ UNCHANGED <<clientVars, threads, rrset, zoneVars, _servers, listings>>

HeldGetZone ==
    /\ \E name \in ListedNames, resp \in HeldListingsFor(_zones) :
          LET out == get_zone(_zones, name, resp)
          IN  /\ _zones' = out.zones
              /\ zone_details' = ZoneDetailsCache(_zones, resp, zone_details)
              /\ exc' = out.exc
              /\ ret' = out.ret
              /\ requests' = out.requests
              /\ call' = [op |-> "get_zone", name |-> name]
    /\ pre' = _zones
    /\ UNCHANGED <<clientVars, threads, rrset, zoneVars, _servers, listings>>

HeldSuggestZone ==
    /\ \E r_name \in SuggestArgs, resp \in HeldListingsFor(_zones) :
          LET out == suggest_zone(_zones, r_name, resp)
          IN  /\ _zones' = out.zones
              /\ zone_details' = IF out.requests = <<>> THEN zone_details
                                 ELSE ZoneDetailsCache(_zones, resp, zone_details)
              /\ exc' = out.exc
              /\ ret' = out.ret
              /\ requests' = out.requests
              /\ call' = [op |-> "suggest_zone", r_name |-> r_name]
    /\ pre' = _zones
    /\ UNCHANGED <<clientVars, threads, rrset, zoneVars, _servers, listings>>

HeldCreateZone ==
    /\ \E a \in {c \in CreateArgs : c.masters = <<>>} :
       \E listing \in IF a.update THEN HeldListingsFor(_zones) ELSE {Raised} :
       \E detail \in IF a.update THEN IdAnswers ELSE {Raised} :
       \E resp \in ZoneAnswers :
          LET out == create_zone(_zones, zone_details, a, listing, detail, resp)
          IN  /\ _zones' = out.zones
              /\ zone_details' = out.details
              /\ exc' = out.exc
              /\ ret' = out.ret
              /\ requests' = out.requests
              /\ call' = [op |-> "create_zone", a |-> a]
              /\ _details' = KeptDetails(_details, out.zones)
    /\ pre' = _zones
    /\ UNCHANGED <<clientVars, threads, rrset, zone_name, rrsets, fetched,
                   _servers, listings>>

HeldDeleteZone ==
    /\ \E name \in ListedNames, resp \in PlainAnswers :
          LET out == delete_zone(_zones, zone_details, name, resp)
          IN  /\ _zones' = out.zones
              /\ zone_details' = out.details
              /\ exc' = out.exc
              /\ ret' = out.ret
              /\ requests' = out.requests
              /\ call' = [op |-> "delete_zone", name |-> name]
              /\ _details' = KeptDetails(_details, out.zones)
    /\ pre' = _zones
    /\ UNCHANGED <<clientVars, threads, rrset, zone_name, rrsets, fetched,
                   _servers, listings>>

HeldRestoreZone ==
    /\ \E file \in BackupFiles, resp \in ZoneAnswers :
          LET out == restore_zone(_zones, zone_details, file, resp)
          IN  /\ _zones' = out.zones
              /\ zone_details' = out.details
              /\ exc' = out.exc
              /\ ret' = out.ret
              /\ requests' = out.requests
              /\ call' = [op |-> "restore_zone", file |-> file]
              /\ _details' = KeptDetails(_details, out.zones)
    /\ pre' = _zones
    /\ UNCHANGED <<clientVars, threads, rrset, zone_name, rrsets, fetched,
                   _servers, listings>>

NextCore ==
    \/ HeldDetails
    \/ HeldCreateRecords
    \/ HeldDeleteRecords
    \/ Notify
    \/ Servers
    \/ Config
    \/ Search
    \/ HeldZones
    \/ HeldGetZone
    \/ HeldSuggestZone
    \/ HeldCreateZone
    \/ HeldDeleteZone
    \/ HeldRestoreZone

SpecCore == InitZone /\ [][NextCore]_vars

-----------------------------------------------------------------------------
(* The concurrent specification: two callers run side by side, each on a     *)
(* PDNSZone object of its own and with RRSets of its own, through one shared *)
(* PDNSApiClient; a step is one statement of the method a caller is in, and  *)
(* the steps of the two callers interleave in any order                      *)

Threads == {1, 2}

\* a caller with a new PDNSZone, inside no method.  sent is the transport
\* calls of the method it last entered; alone is what that method leaves
\* behind when nothing else runs: the cache and the transport calls
NewThread(name) ==
    [name |-> name, _details |-> None, pc |-> "idle", resp |-> Raised,
     rrsets |-> <<>>, k |-> 0, changetype |-> "", sent |-> <<>>,
     alone |-> [details |-> None, sent |-> <<>>]]

\* the method returns or raises: its locals are gone
Return(self) ==
    [self EXCEPT !.pc = "idle", !.resp = Raised, !.rrsets = <<>>, !.k = 0,
                 !.changetype = ""]

\* a design the code does not have: _details is an attribute of the class,
\* shared by every PDNSZone
AfterReset_OfTheClass(objs, t) ==
    [i \in DOMAIN objs |->
        [objs[i] EXCEPT !._details = None,
                        !.pc = IF i = t THEN "records_patch" ELSE @]]

\* self._details = None, by caller t on its own zone
AfterReset(objs, t) ==
    [objs EXCEPT ![t]._details = None, ![t].pc = "records_patch"]

InitPair ==
    /\ rrset = None
    /\ call = Start
    /\ pre = None
    /\ exc = NoExc
    /\ ret = None
    /\ _zones = None
    /\ zone_name = <<>>
    /\ _details = None
    /\ requests = <<>>
    /\ rrsets = <<>>
    /\ fetched = 0
    /\ _servers = None
    /\ listings = 0
    /\ zone_details = <<>>
    /\ _api_key = "k"
    /\ request_headers = DefaultHeaders
    /\ threads \in [Threads -> {NewThread(name) : name \in ZoneObjectNames}]

\* what a step of one caller leaves alone: everything but threads
pairFrame ==
    <<rrset, call, pre, exc, ret, _zones, zoneVars, requests, endpointVars,
      _api_key>>

\* the caller enters the details property; resp is what its GET is answered
CallDetails ==
    /\ \E t \in Threads, resp \in IdAnswers :
          LET self == threads[t]
          IN  /\ self.pc = "idle"
              /\ threads' = [threads EXCEPT ![t] =
                    [self EXCEPT
                        !.pc = "details_test", !.resp = resp, !.sent = <<>>,
                        !.alone = [details |-> DetailsCache(self._details, resp),
                                   sent |-> DetailsRequests(self.name,
                                                            self._details, resp)]]]
    /\ UNCHANGED <<pairFrame, request_headers>>

\* the caller enters create_records with its list rrs
CallCreateRecords ==
    /\ \E t \in Threads, rrs \in HeldRRSets, resp \in NoContentAnswers :
          LET self == threads[t]
              out == change_records(self.name, self._details, rrs, "REPLACE", resp)
          IN  /\ self.pc = "idle"
              /\ threads' = [threads EXCEPT ![t] =
                    [self EXCEPT
                        !.pc = "records_loop", !.resp = resp, !.rrsets = rrs,
                        !.k = 1, !.changetype = "REPLACE", !.sent = <<>>,
                        !.alone = [details |-> out.details,
                                   sent |-> out.requests]]]
    /\ UNCHANGED <<pairFrame, request_headers>>

\* the caller enters delete_records with its list rrs
CallDeleteRecords ==
    /\ \E t \in Threads, rrs \in HeldRRSets, resp \in NoContentAnswers :
          LET self == threads[t]
              out == change_records(self.name, self._details, rrs, "DELETE", resp)
          IN  /\ self.pc = "idle"
              /\ threads' = [threads EXCEPT ![t] =
                    [self EXCEPT
                        !.pc = "records_loop", !.resp = resp, !.rrsets = rrs,
                        !.k = 1, !.changetype = "DELETE", !.sent = <<>>,
                        !.alone = [details |-> out.details,
                                   sent |-> out.requests]]]
    /\ UNCHANGED <<pairFrame, request_headers>>

\* if not self._details
StepTestDetails ==
    /\ \E t \in Threads :
          LET self == threads[t]
          IN  /\ self.pc = "details_test"
              /\ threads' = [threads EXCEPT ![t] =
                    IF Truthy(self._details)
                    THEN Return(self)
                    ELSE [self EXCEPT !.pc = "details_get"]]
    /\ UNCHANGED <<pairFrame, request_headers>>

\* self._get(self.url): the call returns, or raises and ends the method.  It
\* goes through PDNSApiClient.request, which writes the api key into the
\* headers all callers share
StepGetDetails ==
    /\ \E t \in Threads :
          LET self == threads[t]
              got == [self EXCEPT
                         !.sent = @ \o <<Request("GET", ZoneUrl(self.name),
                                                 <<>>, self.resp)>>]
          IN  /\ self.pc = "details_get"
              /\ threads' = [threads EXCEPT ![t] =
                    IF self.resp.ok
                    THEN [got EXCEPT !.pc = "details_store"]
                    ELSE Return(got)]
    /\ request_headers' = Headers(_api_key, request_headers)
    /\ UNCHANGED pairFrame

\* self._details = <what the GET returned>; return self._details
StepStoreDetails ==
    /\ \E t \in Threads :
          LET self == threads[t]
          IN  /\ self.pc = "details_store"
              /\ threads' = [threads EXCEPT ![t] =
                    Return([self EXCEPT !._details = self.resp.data])]
    /\ UNCHANGED <<pairFrame, request_headers>>

\* one turn of `for rrset in rrsets`: ensure_canonical raises and ends the
\* method, or the RRSet is prepared; after the last turn the loop is left
StepLoopRecords ==
    /\ \E t \in Threads :
          LET self == threads[t]
          IN  /\ self.pc = "records_loop"
              /\ threads' = [threads EXCEPT ![t] =
                    IF self.k > Len(self.rrsets)
                    THEN [self EXCEPT !.pc = "records_reset"]
                    ELSE IF EnsureCanonicalExc(self.rrsets[self.k], self.name)
                            # NoExc
                    THEN Return(self)
                    ELSE [self EXCEPT
                             !.rrsets[self.k] =
                                 Prepared(self.name, @, self.changetype),
                             !.k = @ + 1]]
    /\ UNCHANGED <<pairFrame, request_headers>>

StepResetDetails ==
    /\ \E t \in Threads :
          /\ threads[t].pc = "records_reset"
          /\ threads' = AfterReset(threads, t)
    /\ UNCHANGED <<pairFrame, request_headers>>

\* return self._patch(self.url, data={'rrsets': rrsets})
StepPatchRecords ==
    /\ \E t \in Threads :
          LET self == threads[t]
              data == [rrsets |-> [i \in 1..Len(self.rrsets) |->
                                      Wire(self.rrsets[i])]]
          IN  /\ self.pc = "records_patch"
              /\ threads' = [threads EXCEPT ![t] =
                    Return([self EXCEPT
                               !.sent = @ \o <<Request("PATCH", ZoneUrl(self.name),
                                                      data, self.resp)>>])]
    /\ request_headers' = Headers(_api_key, request_headers)
    /\ UNCHANGED pairFrame

NextPair ==
    \/ CallDetails
    \/ CallCreateRecords
    \/ CallDeleteRecords
    \/ StepTestDetails
    \/ StepGetDetails
    \/ StepStoreDetails
    \/ StepLoopRecords
    \/ StepResetDetails
    \/ StepPatchRecords

SpecPair == InitPair /\ [][NextPair]_vars

-----------------------------------------------------------------------------
(* Properties *)

\* a name is canonical iff it ends with a dot
IsCanonical(s) == Len(s) > 0 /\ s[Len(s)] = "."

-----------------------------------------------------------------------------
(* Properties of PDNSServer.suggest_zone, checked under SpecServer *)

\* r is p + "." + z for some prefix p
IsDotSuffix(z, r) ==
    \E k \in 0..Len(r) : r = SubSeq(r, 1, k) \o <<".">> \o z

\* the places in the zone list of the candidates for the record name r
Candidates(r, zs) == {i \in 1..Len(zs) : IsDotSuffix(zs[i].name, r)}

\* the candidates no other candidate has a longer name than
Longest(r, zs) ==
    {i \in Candidates(r, zs) :
        \A j \in Candidates(r, zs) : Len(zs[j].name) <= Len(zs[i].name)}

\* C1: suggest_zone(r) on a canonical r returns a zone z of the list with r
\* ending in "." + z.name and no other such zone having a longer name, and
\* returns None exactly when the list has no such zone.
C1_LongestDotSuffix ==
    (call.op = "suggest_zone" /\ exc = NoExc) =>
        IF Candidates(call.r_name, _zones.list) = {}
        THEN ret = None
        ELSE \E i \in Longest(call.r_name, _zones.list) : ret = _zones.list[i]

C1_Witness ==
    /\ call.op = "suggest_zone"
    /\ exc = NoExc
    /\ call.r_name = <<"a", ".", ".">>
    /\ Len(_zones.list) = 2
    /\ _zones.list[1].name = <<>>
    /\ _zones.list[2].name = <<".">>
    /\ ret = _zones.list[2]

\* C2: suggest_zone with a name not ending in a dot raises CanonicalError
\* carrying that name, whatever the zone list and the state of the cache.
C2_NonCanonicalRaises ==
    (call.op = "suggest_zone" /\ ~IsCanonical(call.r_name)) =>
        exc = [kind |-> "PDNSCanonicalError", name |-> call.r_name]

C2_Witness ==
    /\ call.op = "suggest_zone"
    /\ call.r_name = <<".", "a">>
    /\ pre = None
    /\ exc = [kind |-> "PDNSCanonicalError", name |-> <<".", "a">>]

\* C3: when several candidates have the maximum name length, suggest_zone
\* returns the one that comes first in the zone list; the zone returned is
\* thus determined by the record name and the zone list, call after call.
C3_FirstOfLongest ==
    (call.op = "suggest_zone" /\ exc = NoExc /\ ret # None) =>
        /\ ret.idx \in Longest(call.r_name, _zones.list)
        /\ \A j \in Longest(call.r_name, _zones.list) : ret.idx <= j
        /\ ret = _zones.list[ret.idx]

C3_Witness ==
    /\ call.op = "suggest_zone"
    /\ exc = NoExc
    /\ call.r_name = <<"a", ".">>
    /\ Len(_zones.list) = 2
    /\ _zones.list[1].name = <<>>
    /\ _zones.list[2].name = <<>>
    /\ ret = _zones.list[1]
    /\ ret # _zones.list[2]

-----------------------------------------------------------------------------
(* Properties of PDNSZone, checked under SpecZone *)

ChangeOps == {"create_records", "delete_records"}

\* the last operation was create_records or delete_records and issued its PATCH
Patched ==
    /\ call.op \in ChangeOps
    /\ Len(requests) = 1
    /\ requests[1].method = "PATCH"

\* C9: over the reads of a zone's details and records and the other
\* non-mutating calls, with no create_records or delete_records in between,
\* the GET of the zone's details returns a value at most once, whatever the
\* value.
C9_FetchedAtMostOnce == fetched <= 1

\* C10: once create_records or delete_records has issued its PATCH the details
\* cache is None, whether the PATCH succeeded or failed, and a read of details
\* or records that comes next issues one GET of the zone and returns what the
\* GET answered.
C10_ResetByPatch ==
    [][/\ Patched' => _details' = None
       /\ (Patched /\ call'.op \in {"details", "records"}) =>
             /\ Len(requests') = 1
             /\ requests'[1].method = "GET"
             /\ requests'[1].path = <<"zones", zone_name>>
             /\ (requests'[1].answer.ok /\ call'.op = "details") =>
                    /\ exc' = NoExc
                    /\ ret' = requests'[1].answer.data
             /\ (requests'[1].answer.ok /\ call'.op = "records" /\ exc' = NoExc) =>
                    ret' = [list |-> requests'[1].answer.data.rrsets]
      ]_vars

\* a PATCH that failed has left a populated cache empty
C10_Witness ==
    /\ Patched
    /\ ~requests[1].answer.ok
    /\ exc = PDNSError
    /\ pre # None
    /\ DOMAIN pre # {}
    /\ _details = None

-----------------------------------------------------------------------------
(* Properties of RRSet, checked under SpecRR *)

ExactKeySets == {{"content"}, {"content", "disabled"}}

\* C4: after ensure_canonical(z) with z ending in a dot, an RRSet whose name r
\* did not end in a dot is named r + "." + z, and an RRSet whose name ended in
\* a dot keeps its name.
C4_CanonicalName ==
    (call.op = "ensure_canonical" /\ IsCanonical(call.zone)) =>
        /\ exc = NoExc
        /\ rrset.name = IF IsCanonical(pre.name)
                        THEN pre.name
                        ELSE pre.name \o <<".">> \o call.zone

C4_Witness ==
    /\ call.op = "ensure_canonical"
    /\ call.zone = <<"a", ".">>
    /\ pre.name = <<"a">>
    /\ rrset.name = <<"a", ".", "a", ".">>

\* C5: ensure_canonical(zone) with a zone argument not ending in a dot raises
\* CanonicalError carrying the zone argument, whatever the RRSet's name and type.
C5_ZoneCheckedFirst ==
    (call.op = "ensure_canonical" /\ ~IsCanonical(call.zone)) =>
        exc = [kind |-> "PDNSCanonicalError", name |-> call.zone]

C5_Witness ==
    /\ call.op = "ensure_canonical"
    /\ call.zone = <<"a">>
    /\ pre.name = <<>>
    /\ pre.type = "CNAME"
    /\ exc = [kind |-> "PDNSCanonicalError", name |-> <<"a">>]

\* C6: after a successful ensure_canonical(z), an RRSet of type CNAME has every
\* content that did not end in a dot rewritten to content + "." + z and every
\* other content kept; an RRSet of another type has every content kept.
C6_CnameContents ==
    (call.op = "ensure_canonical" /\ exc = NoExc) =>
        /\ Len(rrset.records) = Len(pre.records)
        /\ \A i \in 1..Len(pre.records) :
              rrset.records[i].content =
                  IF pre.type = "CNAME" /\ ~IsCanonical(pre.records[i].content)
                  THEN pre.records[i].content \o <<".">> \o call.zone
                  ELSE pre.records[i].content

C6_Witness ==
    /\ call.op = "ensure_canonical"
    /\ exc = NoExc
    /\ pre.type = "CNAME"
    /\ Len(pre.records) = 2
    /\ pre.records[1].content = <<"a">>
    /\ pre.records[2].content = <<"a", ".">>
    /\ rrset.records[1].content = <<"a", ".", "a", ".">>
    /\ rrset.records[2].content = <<"a", ".">>

\* C7: the construction of an RRSet succeeds exactly when every dict record has
\* the key set {content} or {content, disabled}; any other key set makes it
\* fail with a validation error.
C7_ExactKeySets ==
    call.op = "RRSet" =>
        (exc = NoExc <=>
            \A i \in 1..Len(call.records) :
                call.records[i].kind = "dict" =>
                    DOMAIN call.records[i].d \in ExactKeySets)

\* C8: after a successful construction the records field has the length and
\* order of the input and its i-th element is the normalization of the i-th
\* input: a bare string c gives {content: c, disabled: false}, a pair (c, d)
\* gives {content: c, disabled: d}, a dict without disabled gives the dict with
\* disabled false, a dict with disabled is kept as given.
C8_Normalized ==
    (call.op = "RRSet" /\ exc = NoExc) =>
        /\ Len(rrset.records) = Len(call.records)
        /\ \A i \in 1..Len(call.records) :
              LET r == call.records[i]
                  n == rrset.records[i]
              IN  CASE r.kind = "str" ->
                         n = [content |-> r.content, disabled |-> FALSE]
                    [] r.kind = "seq" ->
                         n = [content |-> r.content, disabled |-> r.disabled]
                    [] r.kind = "dict" ->
                         IF "disabled" \in DOMAIN r.d
                         THEN n = r.d
                         ELSE /\ DOMAIN n = DOMAIN r.d \cup {"disabled"}
                              /\ n["disabled"] = FALSE
                              /\ \A k \in DOMAIN r.d : n[k] = r.d[k]

C8_Witness ==
    /\ call.op = "RRSet"
    /\ exc = NoExc
    /\ call.records = <<[kind |-> "dict", d |-> [content |-> <<"a">>]],
                        [kind |-> "seq", content |-> <<"a", ".">>, disabled |-> TRUE]>>
    /\ rrset.records = <<[content |-> <<"a">>, disabled |-> FALSE],
                         [content |-> <<"a", ".">>, disabled |-> TRUE]>>

-----------------------------------------------------------------------------
(* Properties of PDNSEndpoint and of the zone operations of PDNSServer,      *)
(* checked under SpecEndpoint                                                *)

ZoneReads == {"zones", "get_zone", "suggest_zone"}

ZoneMutations == {"create_zone", "delete_zone", "restore_zone"}

\* the last operation issued the GET of the zone list
Listed ==
    /\ Len(requests) > 0
    /\ requests[1].method = "GET"
    /\ requests[1].path = <<"zones">>

\* C11: over the reads of a server's zones (zones, get_zone, suggest_zone),
\* with no create_zone, delete_zone or restore_zone in between, the GET of the
\* zone list returns a list at most once, whatever the list, the empty one
\* included.
C11_ListedAtMostOnce == listings <= 1


\* the last operation was a read of the zones property itself
ReadZones == call.op = "zones"

\* C12 as stated: after any call of create_zone, delete_zone or restore_zone,
\* the next read of zones issues a new GET of the zone list.
C12_EveryCallInvalidates ==
    [][(call.op \in ZoneMutations /\ ReadZones') => Listed']_vars

\* the last operation is one that clears the zone-list cache: delete_zone,
\* restore_zone once its file was loaded, create_zone once its POST or PATCH
\* was answered with a true value
Invalidating ==
    \/ call.op = "delete_zone"
    \/ call.op = "restore_zone" /\ call.file # NoFile
    \/ call.op = "create_zone" /\ exc = NoExc /\ ret # None

\* C12, amended: delete_zone always, restore_zone once its backup file was
\* loaded, and create_zone exactly when its POST or PATCH was answered with a
\* true value, leave the zone-list cache None, and the read of zones that
\* comes next issues a new GET of the zone list; after any other create_zone
\* or restore_zone a populated cache is still used by the next read.
C12_InvalidatedWhenDone ==
    [][/\ Invalidating' => _zones' = None
       /\ (Invalidating /\ ReadZones') => Listed'
       /\ (call.op \in ZoneMutations /\ ~Invalidating /\ TruthyList(_zones)
           /\ ReadZones') => requests' = <<>>
      ]_vars

\* a delete_zone that failed has left a populated cache empty
C12_Witness ==
    /\ call.op = "delete_zone"
    /\ exc = PDNSError
    /\ TruthyList(pre)
    /\ _zones = None


\* the places in the zone list zs of the zones named name
Named(name, zs) == {i \in 1..Len(zs) : zs[i].name = name}

\* C13: get_zone(name) returns the first zone of the zone list whose name is
\* name, character for character, and returns None, raising nothing, when the
\* list has no zone of that name; it raises only when the GET of the zone list
\* does.
C13_FirstExactMatch ==
    call.op = "get_zone" =>
        /\ exc \in {NoExc, PDNSError}
        /\ exc = PDNSError => (Listed /\ pre = _zones)
        /\ exc = NoExc =>
              IF Named(call.name, _zones.list) = {}
              THEN ret = None
              ELSE /\ ret.idx \in Named(call.name, _zones.list)
                   /\ \A j \in Named(call.name, _zones.list) : ret.idx <= j
                   /\ ret = _zones.list[ret.idx]

\* the list has the name without its trailing dot only: nothing is found
C13_Witness ==
    /\ call.op = "get_zone"
    /\ exc = NoExc
    /\ call.name = <<"a", ".">>
    /\ Len(_zones.list) = 2
    /\ _zones.list[1].name = <<"a">>
    /\ _zones.list[2].name = <<"a">>
    /\ ret = None


-----------------------------------------------------------------------------
(* Properties of the reads and changes of PDNSZone, checked under SpecZone *)

RECURSIVE KeptInOrder(_, _, _)
\* out is what is left of listed[i..] when the entries not named name are
\* struck out
KeptInOrder(name, listed, out) ==
    IF listed = <<>>
    THEN out = <<>>
    ELSE IF Head(listed).name = name
    THEN out # <<>> /\ Head(out) = Head(listed)
         /\ KeptInOrder(name, Tail(listed), Tail(out))
    ELSE KeptInOrder(name, Tail(listed), out)

\* C14: on a zone whose details list rrsets, get_record(name) returns the
\* entries of rrsets whose name is name, all of them and in the order of the
\* list, and an empty list, raising nothing, when none is named name.
C14_AllNamedInOrder ==
    (call.op = "get_record" /\ exc # PDNSError /\ "rrsets" \in DOMAIN _details) =>
        /\ exc = NoExc
        /\ KeptInOrder(call.name, _details.rrsets, ret.list)
        /\ (\A i \in 1..Len(_details.rrsets) :
               _details.rrsets[i].name # call.name) => ret = List(<<>>)

\* two entries of different types share the name asked for
C14_Witness ==
    /\ call.op = "get_record"
    /\ exc = NoExc
    /\ call.name = <<"a", ".">>
    /\ Len(ret.list) = 2
    /\ ret.list[1].type = "A"
    /\ ret.list[2].type = "CNAME"


\* the changetype create_records and delete_records put in every RRSet
Forced(op) == IF op = "create_records" THEN "REPLACE" ELSE "DELETE"

\* C15: create_records (resp. delete_records) on a zone whose name ends in a
\* dot issues one transport call, a PATCH to the zone URL whose body is
\* {rrsets: [...]} with the given RRSets, all of them and in their order; in
\* the body every RRSet has its canonical name, ending in a dot, and the
\* changetype REPLACE (resp. DELETE), whatever changetype it was built with.
C15_OnePatchOfAll ==
    (call.op \in ChangeOps /\ IsCanonical(zone_name)) =>
        /\ Len(requests) = 1
        /\ requests[1].method = "PATCH"
        /\ requests[1].path = <<"zones", zone_name>>
        /\ DOMAIN requests[1].data = {"rrsets"}
        /\ Len(requests[1].data.rrsets) = Len(call.rrsets)
        /\ \A i \in 1..Len(call.rrsets) :
              LET given == call.rrsets[i]
                  sent == requests[1].data.rrsets[i]
              IN  /\ IsCanonical(sent.name)
                  /\ sent.name = IF IsCanonical(given.name)
                                 THEN given.name
                                 ELSE given.name \o <<".">> \o zone_name
                  /\ sent.type = given.type
                  /\ sent.ttl = given.ttl
                  /\ Len(sent.records) = Len(given.records)
                  /\ sent.changetype = Forced(call.op)

\* an RRSet built with changetype DELETE is sent by create_records as REPLACE,
\* ahead of the one given after it
C15_Witness ==
    /\ call.op = "create_records"
    /\ IsCanonical(zone_name)
    /\ Len(call.rrsets) = 2
    /\ call.rrsets[1].changetype = "DELETE"
    /\ call.rrsets[1].name = <<"a">>
    /\ call.rrsets[2].type = "CNAME"
    /\ Len(requests) = 1
    /\ requests[1].data.rrsets[1].changetype = "REPLACE"
    /\ requests[1].data.rrsets[1].name = <<"a", ".", "a", ".">>
    /\ requests[1].data.rrsets[2].type = "CNAME"


ZoneNonMutating == {"records", "get_record", "notify", "backup"}

\* the non-mutating operations of a zone leave a populated (true) cache alone
ZoneCacheKept ==
    [][(call'.op \in ZoneNonMutating /\ Truthy(_details)) =>
            _details' = _details]_vars

\* C16, for the details of a zone: once the GET has returned a value and until
\* create_records or delete_records is called, every read of details returns
\* that value, whatever the server would answer now, and records,
\* get_record, notify and backup leave a populated cache as it is.
C16_SameUntilInvalidated ==
    [][/\ (fetched >= 1 /\ call'.op = "details" /\ exc' = NoExc) =>
             ret' = _details
       /\ (fetched >= 1 /\ call'.op \in {"details"} \cup ZoneNonMutating) =>
             _details' = _details
      ]_vars


-----------------------------------------------------------------------------
(* Properties of PDNSApiClient.request, checked under SpecClient *)

\* the response the last request was answered with
Answer == requests[1].answer

\* C17: request sorts the response by its status code: on 200 and 201 it
\* returns the decoded JSON body, on 204 it returns the empty value and raises
\* nothing, on 404 it raises PDNSError with the message Not found, and on any
\* other status it raises PDNSError; every PDNSError raised carries the URL of
\* the response and its status code.
C17_ClassifiedByStatus ==
    call.op = "request" =>
        /\ (Answer.status_code \in {200, 201} /\ Json(Answer.text) # NotJson) =>
              (exc = NoExc /\ ret = Json(Answer.text))
        /\ Answer.status_code = 204 => (exc = NoExc /\ ret = <<>>)
        /\ Answer.status_code = 404 =>
              exc = PDNSErrorOf(Answer.url, 404, "Not found")
        /\ Answer.status_code \notin {200, 201, 204} =>
              /\ exc.kind = "PDNSError"
              /\ exc.url = Answer.url
              /\ exc.status_code = Answer.status_code
              /\ ret = None

\* a 202 with a JSON body is an error, carrying the URL the response came from
C17_Witness ==
    /\ call.op = "request"
    /\ Answer.status_code = 202
    /\ Answer.text = "{name: a.}"
    /\ Answer.url = <<"http://", "elsewhere">>
    /\ exc.kind = "PDNSError"
    /\ exc.url = <<"http://", "elsewhere">>
    /\ exc.status_code = 202

\* C18: for a response whose status is none of 200, 201, 204 and 404, the
\* message of the error is the error field of the JSON body if it has one,
\* else its errors field if it has one, and the raw text of the response both
\* when the body is not JSON and when the JSON body has neither field.
C18_MessageOrRawText ==
    (call.op = "request" /\ Answer.status_code \notin {200, 201, 204, 404}) =>
        LET body == Json(Answer.text)
            fields == IF body.json = "dict" THEN DOMAIN body.value ELSE {}
        IN  exc.message = IF "error" \in fields THEN body.value["error"]
                          ELSE IF "errors" \in fields THEN body.value["errors"]
                          ELSE Answer.text


-----------------------------------------------------------------------------
(* Properties of PDNSEndpoint.servers and PDNSServer.create_zone, checked    *)
(* under SpecEndpoint                                                        *)

\* C19: once a read of servers has fetched the list of GET /servers, the
\* cache keeps that list whatever is called, and every later read of servers
\* returns it and issues no transport call.
C19_ServersFetchedOnce ==
    [][_servers # None =>
          /\ _servers' = _servers
          /\ call'.op = "servers" =>
                (requests' = <<>> /\ exc' = NoExc /\ ret' = _servers)
      ]_vars


\* the last operation issued a POST or a PATCH, its last transport call
Answered ==
    /\ Len(requests) > 0
    /\ requests[Len(requests)].method \in {"POST", "PATCH"}

\* what the POST or PATCH of the last operation was answered
Last == requests[Len(requests)].answer

\* the POST or PATCH of the last operation was answered with a true value
AnsweredTruthy == Answered /\ Last.ok /\ Truthy(Last.data)

\* C20 as stated: create_zone returns a new Zone and clears the zone-list
\* cache exactly when the transport response is true; on an empty response it
\* returns None and leaves the cache as it was, and when the transport call
\* raises, the error propagates and the cache is left as it was.
C20_ClearedIffTruthy ==
    call.op = "create_zone" =>
        /\ AnsweredTruthy =>
              (exc = NoExc /\ ret = PDNSZone(Last.data.name, 0) /\ _zones = None)
        /\ ret # None => AnsweredTruthy
        /\ (Answered /\ Last.ok /\ ~Truthy(Last.data)) =>
              (exc = NoExc /\ ret = None /\ _zones = pre)
        /\ (Answered /\ ~Last.ok) => exc = PDNSError
        /\ exc = PDNSError => (ret = None /\ _zones = pre)

\* the cache is as it was when create_zone was called, or, with update, it was
\* empty and holds the list the lookup of the zone fetched
LeftOrFilled ==
    \/ _zones = pre
    \/ /\ call.a.update
       /\ ~TruthyList(pre)
       /\ Listed
       /\ _zones # None

\* C20, amended: create_zone returns a new Zone and sets the zone-list cache
\* to None exactly when its POST (with update, its PATCH) is answered with a
\* true value; on an empty answer it returns None, when a transport call
\* raises the error propagates, and in both cases the cache is not cleared:
\* it is as it was, except that with update the lookup of the zone may have
\* filled an empty cache before.
C20_ClearedIffTruthyAnswer ==
    call.op = "create_zone" =>
        /\ AnsweredTruthy =>
              (exc = NoExc /\ ret = PDNSZone(Last.data.name, 0) /\ _zones = None)
        /\ ret # None => AnsweredTruthy
        /\ (Answered /\ Last.ok /\ ~Truthy(Last.data)) =>
              (exc = NoExc /\ ret = None /\ LeftOrFilled)
        /\ (Answered /\ ~Last.ok) => exc = PDNSError
        /\ exc = PDNSError => (ret = None /\ LeftOrFilled)
        /\ ~AnsweredTruthy => (TruthyList(pre) => _zones = pre)

\* a create_zone with update whose PATCH was answered with the empty value:
\* None is returned and the cache, empty before, holds the list looked up
C20_Witness ==
    /\ call.op = "create_zone"
    /\ call.a.update
    /\ pre = None
    /\ Len(requests) = 3
    /\ requests[3].method = "PATCH"
    /\ requests[3].answer = Ok(<<>>)
    /\ exc = NoExc
    /\ ret = None
    /\ TruthyList(_zones)


\* the places in the transport calls rs of the calls of the method given
CallsOf(method, rs) == {k \in 1..Len(rs) : rs[k].method = method}

\* the place in the zone list zs of the first zone named name
FirstPlace(name, zs) ==
    CHOOSE i \in Named(name, zs) : \A j \in Named(name, zs) : i <= j

\* C21: create_zone with update true and no zone of that name in the zone list
\* raises an error and issues neither PATCH nor POST; with update true and the
\* zone in the list, once the zone's details are had, it issues one PATCH, to
\* <url>/zones/<id> with the id of those details, and no POST; with update
\* false it issues one POST to <url>/zones and nothing else, so no lookup.
C21_PatchByIdOrPost ==
    [][call'.op = "create_zone" =>
          LET rs == requests'
              name == call'.a.name
          IN  IF ~call'.a.update
              THEN /\ Len(rs) = 1
                   /\ rs[1].method = "POST"
                   /\ rs[1].path = <<"zones">>
              ELSE /\ CallsOf("POST", rs) = {}
                   /\ CallsOf("PATCH", rs) \subseteq {Len(rs)}
                   \* the zone is not in the list that was looked up
                   /\ (exc' # PDNSError /\ _zones' # None
                       /\ Named(name, _zones'.list) = {}) =>
                          (exc' = AttributeError /\ CallsOf("PATCH", rs) = {})
                   /\ exc' = AttributeError =>
                          (_zones' # None /\ Named(name, _zones'.list) = {})
                   \* the zone is in the list: no PATCH only if its details
                   \* could not be had
                   /\ CallsOf("PATCH", rs) = {} =>
                          exc' \in {AttributeError, KeyError, PDNSError}
                   /\ exc' = KeyError =>
                          \E i \in Named(name, _zones'.list) :
                             "id" \notin DOMAIN zone_details'[i]
                   \* the id of the PATCH is the id of the details: those
                   \* just fetched, else those cached
                   /\ CallsOf("PATCH", rs) # {} =>
                          LET k == Len(rs)
                          IN  IF k > 1 /\ rs[k - 1].path = <<"zones", name>>
                              THEN rs[k].path = <<"zones", rs[k - 1].answer.data.id>>
                              ELSE /\ TruthyList(_zones)
                                   /\ rs[k].path =
                                        <<"zones",
                                          zone_details[FirstPlace(name, _zones.list)].id>>
      ]_vars

\* the zone is listed and its details fetched: the PATCH goes to their id
C21_Witness ==
    /\ call.op = "create_zone"
    /\ call.a.update
    /\ Len(requests) = 3
    /\ requests[1].method = "GET"
    /\ requests[1].path = <<"zones">>
    /\ requests[2].method = "GET"
    /\ requests[2].answer.data.id = <<"=", "a", ".">>
    /\ requests[3].method = "PATCH"
    /\ requests[3].path = <<"zones", <<"=", "a", ".">>>>


\* C22: delete_zone clears the zone-list cache before its DELETE, so after the
\* call the cache is None both when the DELETE succeeded and when it failed;
\* the call issues exactly one transport call, a DELETE of zones/<name>
\* without data, and returns what the transport answered.
C22_ClearedThenOneDelete ==
    call.op = "delete_zone" =>
        /\ _zones = None
        /\ Len(requests) = 1
        /\ requests[1].method = "DELETE"
        /\ requests[1].path = <<"zones", call.name>>
        /\ requests[1].data = <<>>
        /\ IF requests[1].answer.ok
           THEN exc = NoExc /\ ret = requests[1].answer.data
           ELSE exc = PDNSError

\* a delete_zone that succeeded on a populated cache, and returned the answer
C22_Witness ==
    /\ call.op = "delete_zone"
    /\ TruthyList(pre)
    /\ exc = NoExc
    /\ ret = <<"a">>
    /\ _zones = None


\* the last operation was a restore_zone whose file was loaded and names a zone
Restored ==
    /\ call.op = "restore_zone"
    /\ call.file # NoFile
    /\ "name" \in DOMAIN call.file

\* C23: restore_zone of a loaded backup issues one POST to zones whose data
\* is the backup with nameservers replaced by the empty list and every other
\* key as it was; the zone-list cache is None after it, also when the POST
\* failed or was answered with a falsy value; it returns a new zone made of
\* a truthy answer and None for a falsy one.
C23_PostsBackupWithoutNameservers ==
    Restored =>
        /\ _zones = None
        /\ Len(requests) = 1
        /\ requests[1].method = "POST"
        /\ requests[1].path = <<"zones">>
        /\ DOMAIN requests[1].data = DOMAIN call.file \cup {"nameservers"}
        /\ requests[1].data.nameservers = <<>>
        /\ \A k \in DOMAIN call.file \ {"nameservers"} :
              requests[1].data[k] = call.file[k]
        /\ LET answer == requests[1].answer
           IN  IF ~answer.ok THEN exc = PDNSError
               ELSE /\ exc = NoExc
                    /\ ret = IF Truthy(answer.data)
                             THEN PDNSZone(answer.data.name, 0) ELSE None

\* a backup with nameservers was restored over a populated cache and a zone
\* was returned
C23_Witness ==
    /\ Restored
    /\ "nameservers" \in DOMAIN call.file
    /\ TruthyList(pre)
    /\ exc = NoExc
    /\ ret = PDNSZone(<<"a", ".">>, 0)
    /\ _zones = None


\* C24: an RRSet retains the record input as the caller supplied it: after
\* construction raw_records equals the records passed in (a dict passed
\* without disabled is still without it), and ensure_canonical leaves
\* raw_records as it was (a CNAME content passed in is still unrewritten).
C24_RawRecordsRetained ==
    [][/\ (call'.op = "RRSet" /\ exc' = NoExc)
              => rrset'.raw_records = call'.records
       /\ call'.op = "ensure_canonical"
              => rrset'.raw_records = rrset.raw_records
      ]_vars


-----------------------------------------------------------------------------
(* Properties of the core operations together, checked under SpecCore *)

\* the k-th transport call of the last operation failed
FailedCall(k) == ~requests[k].answer.ok

\* the last transport call of the last operation was a GET that failed
FailedFetch ==
    /\ Len(requests) > 0
    /\ requests[Len(requests)].method = "GET"
    /\ FailedCall(Len(requests))

\* C25: in every core operation a transport call that failed is the last
\* call of the operation (nothing is issued after it and it is not issued
\* again) and the operation ends by raising the transport's error, which it
\* raises for no other reason; a GET that failed leaves the cache it was to
\* fill (the server list, the zone list, the details of the zone) as it was.
C25_FailureEndsTheCall ==
    [][/\ \A k \in 1..Len(requests') :
             FailedCall(k)' => (k = Len(requests') /\ exc' = PDNSError)
       /\ exc' = PDNSError => (Len(requests') > 0 /\ ~requests'[Len(requests')].answer.ok)
       /\ \A j, k \in 1..Len(requests') :
             (requests'[j].method = requests'[k].method
              /\ requests'[j].path = requests'[k].path) => j = k
       /\ FailedFetch' =>
             /\ _servers' = _servers
             /\ _details' = _details
             /\ IF requests'[Len(requests')].path = <<"zones">>
                   \/ call'.op # "create_zone"
                THEN _zones' = _zones /\ zone_details' = zone_details
                ELSE zone_details' =
                        IF TruthyList(_zones) THEN zone_details
                        ELSE [i \in DOMAIN zone_details' |-> None]
      ]_vars

\* create_zone with update listed the zones, found the zone, and failed on
\* the GET of its details: two calls, and PDNSError raised
C25_Witness ==
    /\ call.op = "create_zone"
    /\ Len(requests) = 2
    /\ requests[1].answer.ok
    /\ FailedCall(2)
    /\ exc = PDNSError
    /\ TruthyList(_zones)


-----------------------------------------------------------------------------
(* Properties of callers running side by side, checked under SpecPair *)

-----------------------------------------------------------------------------
(* Properties of RRSet.ensure_canonical, checked under SpecRR *)

\* the last operation was an ensure_canonical that raised nothing
Canonicalized == call.op = "ensure_canonical" /\ exc = NoExc

\* C27: after a successful ensure_canonical the name of the RRSet ends in a
\* dot and, for type CNAME, so does the content of every record; and a second
\* ensure_canonical with the same zone, right after a successful one, leaves
\* the RRSet as the first one left it.
C27_CanonicalOnceAndForAll ==
    [][/\ Canonicalized' =>
             /\ IsCanonical(rrset'.name)
             /\ rrset'.type = "CNAME" =>
                   \A i \in 1..Len(rrset'.records) :
                       IsCanonical(rrset'.records[i].content)
       /\ (Canonicalized /\ Canonicalized' /\ call'.zone = call.zone) =>
             rrset' = rrset
      ]_vars

\* a CNAME RRSet whose name and content an earlier call has rewritten, left
\* as it was by the call that came last
C27_Witness ==
    /\ Canonicalized
    /\ rrset.type = "CNAME"
    /\ rrset.name = <<"a", ".", "a", ".">>
    /\ Len(rrset.records) = 2
    /\ rrset.records[1].content = <<"a", ".", "a", ".">>
    /\ pre = rrset


\* what ensure_canonical may make of a name or a content s
Rewritten(s, zone) == IF IsCanonical(s) THEN s ELSE s \o Dot \o zone

\* C28: a successful ensure_canonical leaves type, ttl, changetype and
\* comments of the RRSet, the number and order of its records and every key
\* of a record but content as they were, rewrites the name, rewrites the
\* contents only for type CNAME, and adds or removes no key; a call that
\* raises PDNSCanonicalError leaves the whole RRSet as it was.
C28_OnlyNameAndCnameContents ==
    [][call'.op = "ensure_canonical" =>
          IF exc' # NoExc
          THEN rrset' = rrset
          ELSE /\ DOMAIN rrset' = DOMAIN rrset
               /\ \A k \in {"type", "ttl", "changetype", "comments"} :
                     rrset'[k] = rrset[k]
               /\ rrset'.name = Rewritten(rrset.name, call'.zone)
               /\ Len(rrset'.records) = Len(rrset.records)
               /\ \A i \in 1..Len(rrset.records) :
                     /\ DOMAIN rrset'.records[i] = DOMAIN rrset.records[i]
                     /\ \A k \in DOMAIN rrset.records[i] \ {"content"} :
                           rrset'.records[i][k] = rrset.records[i][k]
                     /\ rrset'.records[i].content =
                           IF rrset.type = "CNAME"
                           THEN Rewritten(rrset.records[i].content, call'.zone)
                           ELSE rrset.records[i].content
      ]_vars

\* a CNAME RRSet with a disabled record, whose name and content the call
\* has rewritten
C28_Witness ==
    /\ Canonicalized
    /\ rrset.type = "CNAME"
    /\ rrset.name # pre.name
    /\ Len(rrset.records) = 2
    /\ rrset.records[1].content # pre.records[1].content
    /\ rrset.records[1].disabled
    /\ ~rrset.records[2].disabled


-----------------------------------------------------------------------------
(* Properties of the refusal of names that are not canonical, checked under  *)
(* SpecCore                                                                  *)

\* C29: suggest_zone with a record name that does not end in a dot raises
\* PDNSCanonicalError, issues no transport call and leaves the zone-list
\* cache as it was; create_records and delete_records with a list that is not
\* empty, on a zone whose name does not end in a dot, raise
\* PDNSCanonicalError, issue no PATCH, leave the details cache as it was and
\* leave every RRSet of the list as it was passed.
C29_RefusedBeforeAnyEffect ==
    [][/\ (call'.op = "suggest_zone" /\ ~IsCanonical(call'.r_name)) =>
             /\ exc' = PDNSCanonicalError(call'.r_name)
             /\ requests' = <<>>
             /\ _zones' = _zones
             /\ zone_details' = zone_details
       /\ (call'.op \in ChangeOps /\ call'.rrsets # <<>>
           /\ ~IsCanonical(zone_name)) =>
             /\ exc' = PDNSCanonicalError(zone_name)
             /\ requests' = <<>>
             /\ _details' = _details
             /\ rrsets' = call'.rrsets
      ]_vars

\* delete_records of two RRSets was refused by a zone named without a final
\* dot, whose details are still cached
C29_Witness ==
    /\ call.op = "delete_records"
    /\ Len(call.rrsets) = 2
    /\ zone_name = <<"a">>
    /\ exc = PDNSCanonicalError(<<"a">>)
    /\ requests = <<>>
    /\ Truthy(_details)
    /\ rrsets = call.rrsets


-----------------------------------------------------------------------------
(* Properties of the reach of a cache reset, checked under SpecCore *)

\* C30: create_records and delete_records of a zone, which reset the details
\* cache of that zone once they reach their PATCH, leave the zone-list cache
\* of the server, the details of the zones it lists and the server list as
\* they were; create_zone, delete_zone and restore_zone of the server leave
\* the details cache of a zone the caller holds as it was, and a read of the
\* details of that zone that comes next, its cache being populated, issues no
\* transport call and returns the cached details.
C30_ResetWithinTheObject ==
    [][/\ call'.op \in ChangeOps =>
             /\ _zones' = _zones
             /\ zone_details' = zone_details
             /\ _servers' = _servers
             /\ requests' # <<>> => _details' = None
       /\ call'.op \in ZoneMutations =>
             /\ _details' = _details
             /\ _servers' = _servers
       /\ (call.op \in ZoneMutations /\ call'.op = "details"
           /\ Truthy(_details)) =>
             /\ requests' = <<>>
             /\ exc' = NoExc
             /\ ret' = _details
             /\ _details' = _details
      ]_vars

\* delete_zone has reset a populated zone-list cache, and the zone the caller
\* holds has its details still cached
C30_Witness ==
    /\ call.op = "delete_zone"
    /\ TruthyList(pre)
    /\ _zones = None
    /\ Truthy(_details)

====
